---- MODULE Spec2Model ----
(***************************************************************************)
(* Boundary-scan walking-pattern interconnect test                         *)
(* (walkin__sample_use_partid_cli_time.py).                                *)
(*                                                                         *)
(* A scan vector is a sequence of the one-character strings "0" and "1".   *)
(* Python index i of a string is position i + 1 of the sequence.  The      *)
(* driver (urjtag) hands out and takes register strings in transport       *)
(* order: position 1 of a driver string is the highest bit_index.          *)
(***************************************************************************)
EXTENDS Integers, Sequences, FiniteSets, TLC

VARIABLES
    pc,                       \* position of main() / of the pure-function harness
    extest_bit_info_dict,     \* Pin Map of the EXTEST (driver) device
    sample_bit_info_dict,     \* Pin Map of the SAMPLE (observer) device
    board,                    \* the board: what every sample cell is wired to
    urc,                      \* the urjtag chain object (external driver state)
    walkin_state,             \* global flag: -1 unset, 0 walking zeros, 1 walking ones
    summary_list,             \* global list of per-step summary dicts
    walkin_zero_string,       \* main(): baseline of the walking-zeros pass
    walkin_ones_string,       \* main(): baseline of the walking-ones pass
    walkin_zero_output_list,  \* main(): per-pin vectors of the walking-zeros pass
    walkin_ones_output_list,  \* main(): per-pin vectors of the walking-ones pass
    step,                     \* set_urc_bits(): index of the vector of the running loop
    dr_init_bits,             \* set_urc_bits(): running EXTEST baseline
    dr_init_bits_sample,      \* set_urc_bits(): running SAMPLE baseline
    summary_dict,             \* set_urc_bits(): record of the step under way
    data_bits_old,            \* dr_out_changes_lookup(): argument of the last call
    data_bits_new,            \* dr_out_changes_lookup(): argument of the last call
    summary_chain_dict,       \* view_summary(): match lists keyed by driver pin name
    printed,                  \* view_summary(): the printed lines <<key, text>>
    walk_trace,               \* history: what every walking step of the session saw
    fs,                       \* the files under BASE_FOLDER: lookup tables and pin tables
    sample_device,            \* main(): the sample_* locals of lines 840-887
    extest_device,            \* main(): the extest_* locals of lines 844-888
    call,                     \* pure-function harness: the arguments of the call
    returned                  \* pure-function harness: the outcomes of the calls made

vars == <<pc, extest_bit_info_dict, sample_bit_info_dict, board, urc, walkin_state,
          summary_list, walkin_zero_string, walkin_ones_string,
          walkin_zero_output_list, walkin_ones_output_list, step, dr_init_bits,
          dr_init_bits_sample, summary_dict, data_bits_old, data_bits_new,
          summary_chain_dict, printed, walk_trace, fs, sample_device, extest_device,
          call, returned>>

\* the state of the start-up of main(), lines 832-888
startup_vars == <<fs, sample_device, extest_device>>

\* the state of a harness that calls one function on its own
call_vars == <<call, returned>>

(***************************************************************************)
(* Bounds of the model.                                                    *)
(***************************************************************************)
\* width of the EXTEST device's boundary-scan register
Width == 3

BitIndex == 0 .. (Width - 1)

Bit == {"0", "1"}

Level == {0, 1}

\* Python's None
None == "None"

(***************************************************************************)
(* Python primitives                                                       *)
(***************************************************************************)
\* s[::-1]
Reverse(s) == [k \in 1 .. Len(s) |-> s[Len(s) + 1 - k]]

\* str(bit_value) for the integers 0 and 1
str(v) == IF v = 0 THEN "0" ELSE "1"

Digits == <<"0", "1", "2", "3", "4", "5", "6", "7", "8", "9">>

\* int(text) for a one-digit decimal text
int(s) == (CHOOSE n \in 1 .. Len(Digits) : Digits[n] = s) - 1

\* a ^ b on the integers 0 and 1
Xor(a, b) == (a + b) % 2

Min(a, b) == IF a <= b THEN a ELSE b

\* sorted(keys)
RECURSIVE sorted(_)
sorted(S) ==
    IF S = {} THEN << >>
    ELSE LET m == CHOOSE x \in S : \A y \in S : x <= y
         IN  <<m>> \o sorted(S \ {m})

(***************************************************************************)
(* BITSTRING GENERATE                                                      *)
(***************************************************************************)
\* faulty variant of set_bits: the value is inserted, the old bit kept
set_bits_Inserts(output_string, bit_position, bit_value) ==
    SubSeq(output_string, 1, Min(bit_position, Len(output_string)))
        \o <<str(bit_value)>>
        \o SubSeq(output_string, bit_position + 1, Len(output_string))

\* set_bits: output_string[:p] + str(v) + output_string[p+1:]
set_bits(output_string, bit_position, bit_value) ==
    SubSeq(output_string, 1, Min(bit_position, Len(output_string)))
        \o <<str(bit_value)>>
        \o SubSeq(output_string, bit_position + 2, Len(output_string))

\* faulty variant of IsOutput: input cells are walked too
IsOutput_WithInputs(info) ==
    info.io_type = "O" \/ info.io_type = "B" \/ info.io_type = "I"

\* `info['io_type'] == 'O' or info['io_type'] == 'B'`
IsOutput(info) == info.io_type = "O" \/ info.io_type = "B"

\* the nested ifs on control_bit and disable_value: the cell is gated
IsGated(info) == info.control_bit # None /\ info.disable_value # None

\* faulty variant of EnableValue: the disable value is written as it stands
EnableValue_Disable(info) == int(info.disable_value)

\* enable_value = 1 ^ int(disable_value)
EnableValue(info) == Xor(1, int(info.disable_value))

\* the body of the loop of get_list_of_walkins_output_string for an output cell
WalkVector(info, bit, walkin_string, value) ==
    LET o0 == Reverse(walkin_string)
        o1 == set_bits(o0, bit, value)
        o2 == IF IsGated(info)
              THEN set_bits(o1, int(info.control_bit), EnableValue(info))
              ELSE o1
    IN  Reverse(o2)

\* faulty variant of WalkLoop: each vector starts from the previous vector (cumulative)
RECURSIVE WalkLoop_Cumulative(_, _, _, _)
WalkLoop_Cumulative(bits, bit_info_dict, walkin_string, value) ==
    IF bits = << >> THEN << >>
    ELSE LET bit  == Head(bits)
             info == bit_info_dict[bit]
         IN  IF IsOutput(info)
             THEN LET v == WalkVector(info, bit, walkin_string, value)
                  IN  <<v>> \o WalkLoop_Cumulative(Tail(bits), bit_info_dict, v, value)
             ELSE WalkLoop_Cumulative(Tail(bits), bit_info_dict, walkin_string, value)

RECURSIVE WalkLoop(_, _, _, _)
WalkLoop(bits, bit_info_dict, walkin_string, value) ==
    IF bits = << >> THEN << >>
    ELSE LET bit  == Head(bits)
             info == bit_info_dict[bit]
             rest == WalkLoop(Tail(bits), bit_info_dict, walkin_string, value)
         IN  IF IsOutput(info)
             THEN <<WalkVector(info, bit, walkin_string, value)>> \o rest
             ELSE rest

get_list_of_walkins_output_string(bit_info_dict, walkin_string, value) ==
    WalkLoop(sorted(DOMAIN bit_info_dict), bit_info_dict, walkin_string, value)

\* faulty variant of SetupCell: the data bit is set to the level, not to its complement
SetupCell_Level(output_string, info, bit, value) ==
    IF IsOutput(info)
    THEN LET o1 == set_bits(output_string, bit, value)
         IN  IF IsGated(info)
             THEN set_bits(o1, int(info.control_bit), EnableValue(info))
             ELSE o1
    ELSE output_string

\* the body of the loop of get_walkin_zeros_or_once_setup_string for one cell
SetupCell(output_string, info, bit, value) ==
    IF IsOutput(info)
    THEN LET o1 == set_bits(output_string, bit, Xor(value, 1))
         IN  IF IsGated(info)
             THEN set_bits(o1, int(info.control_bit), EnableValue(info))
             ELSE o1
    ELSE output_string

RECURSIVE SetupLoop(_, _, _, _)
SetupLoop(bits, bit_info_dict, output_string, value) ==
    IF bits = << >> THEN output_string
    ELSE SetupLoop(Tail(bits), bit_info_dict,
                   SetupCell(output_string, bit_info_dict[Head(bits)], Head(bits), value),
                   value)

\* urc.get_dr_in_string(): the input register string of the active part
get_dr_in_string(u) == u.dr_in[u.part]

get_walkin_zeros_or_once_setup_string(u, bit_info_dict, value) ==
    Reverse(SetupLoop(sorted(DOMAIN bit_info_dict), bit_info_dict,
                      get_dr_in_string(u), value))

(***************************************************************************)
(* BIT & CHANGES CHECK                                                     *)
(***************************************************************************)
\* f"{old} -> {new}"
Transition(old, new) == old \o " -> " \o new

\* faulty variant of DifferingFrom: the entries come in descending index order
RECURSIVE DifferingFrom_Descending(_, _, _)
DifferingFrom_Descending(i, old, new) ==
    IF i >= Len(old) THEN << >>
    ELSE IF old[i + 1] # new[i + 1]
         THEN DifferingFrom_Descending(i + 1, old, new)
                  \o <<[bit |-> i, old |-> old[i + 1], new |-> new[i + 1]]>>
         ELSE DifferingFrom_Descending(i + 1, old, new)

\* faulty variant of DifferingFrom: only the bits that rise are reported
RECURSIVE DifferingFrom_Rising(_, _, _)
DifferingFrom_Rising(i, old, new) ==
    IF i >= Len(old) THEN << >>
    ELSE IF old[i + 1] # new[i + 1] /\ old[i + 1] = "0"
         THEN <<[bit |-> i, old |-> old[i + 1], new |-> new[i + 1]]>>
                  \o DifferingFrom_Rising(i + 1, old, new)
         ELSE DifferingFrom_Rising(i + 1, old, new)

\* differing_bits: (i, old[i], new[i]) for i in range(len(old)) if they differ
RECURSIVE DifferingFrom(_, _, _)
DifferingFrom(i, old, new) ==
    IF i >= Len(old) THEN << >>
    ELSE IF old[i + 1] # new[i + 1]
         THEN <<[bit |-> i, old |-> old[i + 1], new |-> new[i + 1]]>>
                  \o DifferingFrom(i + 1, old, new)
         ELSE DifferingFrom(i + 1, old, new)

differing_bits(old, new) == DifferingFrom(0, old, new)

\* faulty variant of Attributable: the polarity test is dropped
Attributable_AnyPolarity(bit_info, bsdl_dictionary, state) ==
    /\ bit_info.bit \in DOMAIN bsdl_dictionary
    /\ state \in {0, 1}

\* the directional filter of dr_out_changes_lookup
Attributable(bit_info, bsdl_dictionary, state) ==
    /\ bit_info.bit \in DOMAIN bsdl_dictionary
    /\ \/ (state = 0 /\ bit_info.old = "1")
       \/ (state = 1 /\ bit_info.old = "0")

\* the loop over differing_bits: the attributed changes, in order
RECURSIVE AttributedChanges(_, _, _)
AttributedChanges(diffs, bsdl_dictionary, state) ==
    IF diffs = << >> THEN << >>
    ELSE LET rest == AttributedChanges(Tail(diffs), bsdl_dictionary, state)
         IN  IF Attributable(Head(diffs), bsdl_dictionary, state)
             THEN <<Head(diffs)>> \o rest
             ELSE rest

\* faulty variant of dr_out_changes_lookup: the transitions are not recorded
dr_out_changes_lookup_NamesOnly(old, new, bsdl_dictionary, dict, summary_dict_key, state) ==
    LET att == AttributedChanges(differing_bits(old, new), bsdl_dictionary, state)
        names == [k \in 1 .. Len(att) |-> bsdl_dictionary[att[k].bit].pin_name]
    IN  (summary_dict_key :> names) @@ ((summary_dict_key \o "io") :> << >>) @@ dict

\* dr_out_changes_lookup: the summary dict with the two lists of the key set
dr_out_changes_lookup(old, new, bsdl_dictionary, dict, summary_dict_key, state) ==
    LET att == AttributedChanges(differing_bits(old, new), bsdl_dictionary, state)
        names == [k \in 1 .. Len(att) |-> bsdl_dictionary[att[k].bit].pin_name]
        ios   == [k \in 1 .. Len(att) |-> Transition(att[k].old, att[k].new)]
    IN  (summary_dict_key :> names) @@ ((summary_dict_key \o "io") :> ios) @@ dict

(***************************************************************************)
(* SUMMARY FUNCTION                                                        *)
(***************************************************************************)
EmptyChain == [keys |-> << >>, val |-> << >>]

\* the inner loop over sampleio: the observed names whose transition is `io`
RECURSIVE SampleMatches(_, _, _)
SampleMatches(dict, sample_index, io) ==
    IF sample_index > Len(dict["sampleio"]) THEN << >>
    ELSE IF dict["sampleio"][sample_index] = io
         THEN <<dict["sample"][sample_index]>> \o SampleMatches(dict, sample_index + 1, io)
         ELSE SampleMatches(dict, sample_index + 1, io)

\* faulty variant of MatchesFor: every observed name of the step, whatever its direction
MatchesFor_AnyDirection(dict, io) ==
    [k \in 1 .. Len(dict["sample"]) |-> dict["sample"][k]]

\* the list appended to the driver pin's entry for one driver transition
MatchesFor(dict, io) ==
    IF io = "0 -> 1" THEN SampleMatches(dict, 1, "0 -> 1")
    ELSE IF io = "1 -> 0" THEN SampleMatches(dict, 1, "1 -> 0")
    ELSE << >>

\* faulty variant of ChainIndex: the pin's list is emptied at every occurrence
ChainIndex_Reset(chain, dict, index) ==
    LET key  == dict["extest"][index]
        keys == IF key \in DOMAIN chain.val THEN chain.keys ELSE Append(chain.keys, key)
    IN  [keys |-> keys,
         val |-> (key :> MatchesFor(dict, dict["extestio"][index])) @@ chain.val]

\* faulty variant of ChainIndex: a pin gets an entry only once it has a match
ChainIndex_NoEmptyEntry(chain, dict, index) ==
    LET key  == dict["extest"][index]
        more == MatchesFor(dict, dict["extestio"][index])
    IN  IF key \in DOMAIN chain.val THEN [chain EXCEPT !.val[key] = @ \o more]
        ELSE IF more = << >> THEN chain
        ELSE [keys |-> Append(chain.keys, key), val |-> (key :> more) @@ chain.val]

\* one pass of the loop over the indexes of extestio
ChainIndex(chain, dict, index) ==
    LET key  == dict["extest"][index]
        init == IF key \in DOMAIN chain.val THEN chain
                ELSE [keys |-> Append(chain.keys, key), val |-> (key :> << >>) @@ chain.val]
    IN  [init EXCEPT !.val[key] = @ \o MatchesFor(dict, dict["extestio"][index])]

RECURSIVE ChainDict(_, _, _)
ChainDict(chain, dict, index) ==
    IF index > Len(dict["extestio"]) THEN chain
    ELSE ChainDict(ChainIndex(chain, dict, index), dict, index + 1)

\* the loop over summary_list that builds summary_chain_dict
RECURSIVE ChainList(_, _)
ChainList(chain, list) ==
    IF list = << >> THEN chain
    ELSE ChainList(ChainDict(chain, Head(list), 1), Tail(list))

\* faulty variant of Verdict: any list of two or more identical names counts as connected
Verdict_AllIdentical(value) ==
    IF Len(value) >= 2 /\ \A k \in 1 .. Len(value) : value[k] = value[1] THEN value[1]
    ELSE IF Len(value) > 2 THEN "Interference"
    ELSE IF Len(value) = 1 THEN "Partial"
    ELSE "Not connected"

\* the text printed after "key => "
Verdict(value) ==
    IF Len(value) = 2 /\ value[1] = value[2] THEN value[1]
    ELSE IF Len(value) > 2 THEN "Interference"
    ELSE IF Len(value) = 1 THEN "Partial"
    ELSE "Not connected"

\* the lines printed by the loop over summary_chain_dict.items()
PrintedLines(chain) ==
    [k \in 1 .. Len(chain.keys) |-> <<chain.keys[k], Verdict(chain.val[chain.keys[k]])>>]

(***************************************************************************)
(* The inputs: Pin Maps as get_dictionary_from_bsdl builds them.           *)
(***************************************************************************)
\* the part numbers of the two devices of the chain
ExtestPart == "extest_part"

SamplePart == "sample_part"

\* the pin label of the cell at a bit_index of the EXTEST device
DriverNames == <<"P0", "P1", "P2", "P3", "P4", "P5">>

\* the pin label of the cell at a bit_index of the SAMPLE device
SampleNames == <<"S0", "S1", "S2", "S3", "S4", "S5">>

\* the dict entry of one `bit` line (safe_value and disable_status are never read)
Cell(io_type, pin_name, control_bit, disable_value) ==
    [io_type |-> io_type, pin_name |-> pin_name,
     control_bit |-> control_bit, disable_value |-> disable_value]

\* what a `bit` line can say: nothing kept, a cell without control columns,
\* an output cell with a control_bit, with or without a disable_value
Shapes ==
    {[io_type |-> t, control_bit |-> None, disable_value |-> None] :
         t \in {"absent", "I", "C", "O", "B"}}
    \cup {[io_type |-> t, control_bit |-> Digits[c + 1], disable_value |-> d] :
         t \in {"O", "B"}, c \in BitIndex, d \in {None, "0", "1"}}

\* lines 268-285: O, I and B cells carry their pin name, a C cell is named "*"
MapOf(shape, names) ==
    [bit \in {b \in DOMAIN shape : shape[b].io_type # "absent"} |->
        Cell(shape[bit].io_type,
             IF shape[bit].io_type = "C" THEN "*" ELSE names[bit + 1],
             shape[bit].control_bit, shape[bit].disable_value)]

\* a control_bit names a control cell: a C cell of the map, or a cell the map
\* does not keep; never a cell with a pin of its own
ControlIsControlCell(shape) ==
    \A b \in DOMAIN shape :
        shape[b].control_bit # None =>
            shape[int(shape[b].control_bit)].io_type \in {"absent", "C"}

\* the Pin Maps of an EXTEST device of Width cells
PinMaps ==
    {MapOf(shape, DriverNames) :
        shape \in {sh \in [BitIndex -> Shapes] : ControlIsControlCell(sh)}}

\* the Pin Maps without control columns
PlainMaps(names) ==
    {MapOf(shape, names) :
        shape \in [BitIndex -> {sh \in Shapes : sh.control_bit = None}]}

\* the register strings of a device of n cells
Vectors(n) == [1 .. n -> Bit]

\* the instructions main() names, and the one tap_detect leaves in a device
EXTEST == "EXTEST"

SAMPLE_PRELOAD == "SAMPLE/PRELOAD"

BYPASS == "BYPASS"

\* the chain object behind get_urjtag_setup: whether the cable answers, the
\* parts tap_detect finds and their IDCODEs, the parts whose set_instruction
\* raises, the active part, the instruction every part holds, the input
\* register string of every part, the vector driven on the EXTEST device's
\* pins, the string last shifted out, the level of the free-running signals of
\* the board; and what has happened on it: the scans issued, and whether a
\* call of urjtag_set_instruction has returned False
Detected(cable, present, partid, refuses, snapshot) ==
    [cable |-> cable,
     present |-> present,
     partid |-> partid,
     refuses |-> refuses,
     part |-> ExtestPart,
     ir |-> (ExtestPart :> BYPASS) @@ (SamplePart :> BYPASS),
     dr_in |-> (ExtestPart :> snapshot) @@ (SamplePart :> << >>),
     pins |-> snapshot,
     dr_out |-> << >>,
     phase |-> "0",
     issued |-> {},
     failed |-> FALSE]

\* the chain of a session under way: both parts found, the EXTEST instruction
\* of line 837 shifted in
Chain(part, extest_dr_in, pins, dr_out) ==
    [Detected(TRUE, {ExtestPart, SamplePart},
              (ExtestPart :> << >>) @@ (SamplePart :> << >>), {}, extest_dr_in)
     EXCEPT !.part = part, !.pins = pins, !.dr_out = dr_out,
            !.ir[ExtestPart] = EXTEST, !.issued = {"shift_ir"}]

(***************************************************************************)
(* Text helpers.  A Python string whose characters matter (a register      *)
(* string, a binary device ID) is a sequence of one-character strings; a   *)
(* string that is only compared and concatenated (an identifier, a folder  *)
(* name, a path) is a string.                                              *)
(***************************************************************************)
\* s[a:b] for 0 <= a <= b
Slice(s, a, b) == SubSeq(s, a + 1, Min(b, Len(s)))

\* the string made of the characters of a sequence
RECURSIVE Join(_)
Join(s) == IF s = << >> THEN "" ELSE Head(s) \o Join(Tail(s))

\* `x in list`
Contains(list, x) == \E k \in 1 .. Len(list) : list[k] = x

(***************************************************************************)
(* DEVICE ID.  The integer the driver returns is held as the sequence of   *)
(* its binary digits, most significant first and without leading zeros:    *)
(* the values of interest lie beyond the integers TLC can hold.            *)
(***************************************************************************)
\* the field width of format(decimal_number, '032b')
IdWidth == 32

\* the slice bounds of lines 853-860
SteppingEnd == 4

PartsEnd == 20

ManufactureEnd == 31

\* format(decimal_number, '032b'): the binary digits, padded with zeros on
\* the left up to 32 characters and never cut
decimal_to_32bit_binary(decimal_number) ==
    [k \in 1 .. (IdWidth - Len(decimal_number)) |-> "0"] \o decimal_number

\* lines 853-860: the three identifiers sliced out of the binary string
stepping_id(device_id_binary) == Join(Slice(device_id_binary, 0, SteppingEnd))

parts_id(device_id_binary) == Join(Slice(device_id_binary, SteppingEnd, PartsEnd))

manufacture_id(device_id_binary) == Join(Slice(device_id_binary, PartsEnd, ManufactureEnd))

(***************************************************************************)
(* PART FILE FETCH.  A file is a sequence of lines; a line of a lookup     *)
(* table is the list of its tab-separated fields, a line of a pin table    *)
(* the list of its space-separated words.                                  *)
(***************************************************************************)
STEPPINGS_FILE == "/STEPPINGS"

PARTS_FILE == "/PARTS"

MANUFACTURERS_FILE == "/MANUFACTURERS"

BASE_FOLDER == "/usr/local/share/urjtag/"

\* a path with no file behind it: open() raises FileNotFoundError
Missing == [exists |-> FALSE, lines |-> << >>]

File(files, path) == IF path \in DOMAIN files THEN files[path] ELSE Missing

\* each.strip() on the fields the tables hold
Padded == (" xilinx " :> "xilinx") @@ (" " :> "")

strip(each) == IF each \in DOMAIN Padded THEN Padded[each] ELSE each

\* line 339: the stripped fields of a line, empty fields left out
info(line_content) ==
    LET kept == SelectSeq(line_content, LAMBDA each : each # "")
    IN  [k \in 1 .. Len(kept) |-> strip(kept[k])]

\* the loop of lines 334-342: the first line that holds the identifier decides
RECURSIVE SearchLines(_, _)
SearchLines(data, device_id_part) ==
    IF data = << >> THEN None
    ELSE IF Contains(Head(data), device_id_part)
         THEN (IF Len(info(Head(data))) > 1 THEN info(Head(data))[2] ELSE None)
         ELSE SearchLines(Tail(data), device_id_part)

search_folders_by_device_id(files, device_id_part, file_path) ==
    IF File(files, file_path).exists
    THEN SearchLines(File(files, file_path).lines, device_id_part)
    ELSE None

\* what `str + None` does
TypeError == "TypeError"

\* a + b on strings, b possibly None
Plus(a, b) == IF a = TypeError \/ b = None THEN TypeError ELSE a \o b

\* the results of fetch_part_file: None, the list of line 387, or an exception
NoPartFile == [raised |-> FALSE, found |-> FALSE, list |-> << >>]

RaisedPartFile == [raised |-> TRUE, found |-> FALSE, list |-> << >>]

fetch_part_file(files, manufacture, parts, stepping, base_folder) ==
    LET manufacture_folder_name ==
            search_folders_by_device_id(files, manufacture, base_folder \o MANUFACTURERS_FILE)
    IN  IF manufacture_folder_name = None THEN NoPartFile
        ELSE
        LET parts_folder_name ==
                search_folders_by_device_id(files, parts,
                    base_folder \o manufacture_folder_name \o PARTS_FILE)
            folder == Plus(Plus(base_folder \o manufacture_folder_name, "/"),
                           parts_folder_name)
            steppings == Plus(folder, STEPPINGS_FILE)
        IN  IF steppings = TypeError THEN RaisedPartFile
            ELSE
            LET stepping_filename == search_folders_by_device_id(files, stepping, steppings)
                content_file == Plus(Plus(folder, "/"), stepping_filename)
            IN  IF content_file = TypeError THEN RaisedPartFile
                ELSE [raised |-> FALSE, found |-> TRUE,
                      list |-> <<manufacture_folder_name, parts_folder_name,
                                 stepping_filename, content_file>>]

(***************************************************************************)
(* BSDL parse: get_dictionary_from_bsdl                                    *)
(***************************************************************************)
\* the first words a line can start with whose first three characters are 'bit'
BitWords == {"bit", "bits"}

\* line[:3] == 'bit': the line starts, without leading blank, with such a word
StartsWithBit(line) == line # << >> /\ line[1] \in BitWords

\* line.strip().split(): the words of the line
components(line) == SelectSeq(line, LAMBDA word : word # "")

IsDigit(text) == \E n \in 1 .. Len(Digits) : Digits[n] = text

\* a `bit` line on which line 266 or line 268 raises (IndexError, ValueError)
Malformed(line) ==
    \/ Len(components(line)) < 5
    \/ ~IsDigit(components(line)[2])

\* faulty variant of Included: every named cell and every control cell is kept
Included_AnyNamed(c) ==
    \/ c[5] # "*"
    \/ c[3] = "C"

\* lines 268 and 277: the cells the map keeps
Included(c) ==
    \/ (c[5] # "*" /\ (c[3] = "O" \/ c[3] = "I" \/ c[3] = "B"))
    \/ (c[5] = "*" /\ c[3] = "C")

\* lines 269-285: the dict with the cell of one line added
WithLine(bit_info_dict, line) ==
    LET c == components(line)
    IN  IF StartsWithBit(line) /\ Included(c)
        THEN (int(c[2]) :> Cell(c[3], c[5],
                                IF Len(c) > 5 THEN c[6] ELSE None,
                                IF Len(c) > 6 THEN c[7] ELSE None)) @@ bit_info_dict
        ELSE bit_info_dict

RECURSIVE ParseLines(_, _)
ParseLines(bit_info_dict, lines) ==
    IF lines = << >> THEN bit_info_dict
    ELSE ParseLines(WithLine(bit_info_dict, Head(lines)), Tail(lines))

\* the outcomes: the dict, None when a line raises inside the try block, and
\* the NameError of line 292 when the file is missing
get_dictionary_from_bsdl(files, bsdl_file_path) ==
    IF ~File(files, bsdl_file_path).exists
    THEN [kind |-> "raise", dict |-> << >>]
    ELSE LET lines == File(files, bsdl_file_path).lines
         IN  IF \E k \in 1 .. Len(lines) : StartsWithBit(lines[k]) /\ Malformed(lines[k])
             THEN [kind |-> "None", dict |-> << >>]
             ELSE [kind |-> "dict", dict |-> ParseLines(<< >>, lines)]

(***************************************************************************)
(* The locals of the start-up of main() for one device.                    *)
(***************************************************************************)
NoDevice ==
    [found |-> FALSE, device_id |-> << >>, device_id_binary |-> << >>,
     stepping_id |-> "", parts_id |-> "", manufacture_id |-> "",
     part_file |-> NoPartFile, loaded |-> "no"]

\* no function called on its own
NoCall ==
    /\ call = << >>
    /\ returned = << >>

NoStartup ==
    /\ fs = << >>
    /\ sample_device = NoDevice
    /\ extest_device = NoDevice

(***************************************************************************)
(* The walk pattern generator on its own: main() lines 900-906 and the     *)
(* two calls of lines 922 and 936, for every Pin Map and live snapshot.    *)
(***************************************************************************)
\* the variables a harness does not use
NoSession ==
    /\ board = << >>
    /\ walk_trace = << >>
    /\ step = 0
    /\ dr_init_bits = << >>
    /\ dr_init_bits_sample = << >>

NoWalk ==
    /\ walkin_zero_string = << >>
    /\ walkin_ones_string = << >>
    /\ walkin_zero_output_list = << >>
    /\ walkin_ones_output_list = << >>

NoDiff ==
    /\ summary_dict = << >>
    /\ data_bits_old = << >>
    /\ data_bits_new = << >>

NoSummary ==
    /\ summary_list = << >>
    /\ summary_chain_dict = EmptyChain
    /\ printed = << >>

InitWalk ==
    /\ pc = "walk_in"
    /\ extest_bit_info_dict \in PinMaps
    /\ sample_bit_info_dict = << >>
    /\ \E snapshot \in Vectors(Width) :
           urc = Chain(ExtestPart, snapshot, snapshot, << >>)
    /\ walkin_state = -1
    /\ NoSession /\ NoWalk /\ NoDiff /\ NoSummary /\ NoStartup
    /\ NoCall

\* lines 900 and 906: both baselines, from the same live snapshot
WalkSetup ==
    /\ pc = "walk_in"
    /\ walkin_zero_string' =
           get_walkin_zeros_or_once_setup_string(urc, extest_bit_info_dict, 0)
    /\ walkin_ones_string' =
           get_walkin_zeros_or_once_setup_string(urc, extest_bit_info_dict, 1)
    /\ pc' = "walk_setup"
    /\ UNCHANGED <<extest_bit_info_dict, sample_bit_info_dict, board, urc, walkin_state,
                   summary_list, walkin_zero_output_list, walkin_ones_output_list,
                   step, dr_init_bits, dr_init_bits_sample, summary_dict,
                   data_bits_old, data_bits_new, summary_chain_dict, printed,
                   walk_trace>>
    /\ UNCHANGED startup_vars
    /\ UNCHANGED call_vars

\* lines 922 and 936: the per-pin vectors of both passes
WalkLists ==
    /\ pc = "walk_setup"
    /\ walkin_zero_output_list' =
           get_list_of_walkins_output_string(extest_bit_info_dict, walkin_zero_string, 0)
    /\ walkin_ones_output_list' =
           get_list_of_walkins_output_string(extest_bit_info_dict, walkin_ones_string, 1)
    /\ pc' = "walk_done"
    /\ UNCHANGED <<extest_bit_info_dict, sample_bit_info_dict, board, urc, walkin_state,
                   summary_list, walkin_zero_string, walkin_ones_string,
                   step, dr_init_bits, dr_init_bits_sample, summary_dict,
                   data_bits_old, data_bits_new, summary_chain_dict, printed,
                   walk_trace>>
    /\ UNCHANGED startup_vars
    /\ UNCHANGED call_vars

NextWalk == WalkSetup \/ WalkLists

SpecWalk == InitWalk /\ [][NextWalk]_vars

(***************************************************************************)
(* The change detector on its own: dr_out_changes_lookup for every pair of *)
(* equal-length vectors, every Pin Map and every value of walkin_state.    *)
(***************************************************************************)
InitDiff ==
    /\ pc = "diff_in"
    /\ extest_bit_info_dict \in PlainMaps(DriverNames)
    /\ sample_bit_info_dict = extest_bit_info_dict
    /\ urc = Chain(ExtestPart, << >>, << >>, << >>)
    /\ walkin_state \in {-1, 0, 1}
    /\ summary_dict = << >>
    /\ data_bits_old \in Vectors(Width)
    /\ data_bits_new \in Vectors(Width)
    /\ NoSession /\ NoWalk /\ NoSummary /\ NoStartup
    /\ NoCall

\* the call of line 567 with the key of line 603 ("extest") or 608 ("sample")
DiffLookup(summary_dict_key, bsdl_dictionary) ==
    /\ pc = "diff_in"
    /\ summary_dict' = dr_out_changes_lookup(data_bits_old, data_bits_new, bsdl_dictionary,
                                             summary_dict, summary_dict_key, walkin_state)
    /\ pc' = summary_dict_key
    /\ UNCHANGED <<extest_bit_info_dict, sample_bit_info_dict, board, urc, walkin_state,
                   summary_list, walkin_zero_string, walkin_ones_string,
                   walkin_zero_output_list, walkin_ones_output_list, step, dr_init_bits,
                   dr_init_bits_sample, data_bits_old, data_bits_new,
                   summary_chain_dict, printed, walk_trace>>
    /\ UNCHANGED startup_vars
    /\ UNCHANGED call_vars

DiffExtest == DiffLookup("extest", extest_bit_info_dict)

DiffSample == DiffLookup("sample", sample_bit_info_dict)

NextDiff == DiffExtest \/ DiffSample

SpecDiff == InitDiff /\ [][NextDiff]_vars

(***************************************************************************)
(* The classifier on its own: view_summary for every summary list of at    *)
(* most MaxRecords records of at most MaxAttr attributed transitions a     *)
(* side.                                                                   *)
(***************************************************************************)
MaxRecords == 2

MaxAttr == 2

\* the two texts Transition can produce for a differing bit
Directions == {Transition("0", "1"), Transition("1", "0")}

SummaryDriverNames == {"P0", "P1"}

SummarySampleNames == {"S0", "S1"}

\* one side of a record: pin names and their transitions, index by index
Sides(names) ==
    UNION {[1 .. n -> names \X Directions] : n \in 0 .. MaxAttr}

\* the dict of one walking step as set_urc_bits appends it
StepRecord(extest, sample) ==
    ("extest" :> [k \in 1 .. Len(extest) |-> extest[k][1]])
    @@ ("extestio" :> [k \in 1 .. Len(extest) |-> extest[k][2]])
    @@ ("sample" :> [k \in 1 .. Len(sample) |-> sample[k][1]])
    @@ ("sampleio" :> [k \in 1 .. Len(sample) |-> sample[k][2]])

StepRecords ==
    {StepRecord(e, s) : e \in Sides(SummaryDriverNames), s \in Sides(SummarySampleNames)}

SummaryLists == UNION {[1 .. n -> StepRecords] : n \in 0 .. MaxRecords}

InitSummary ==
    /\ pc = "summary_in"
    /\ extest_bit_info_dict = << >>
    /\ sample_bit_info_dict = << >>
    /\ urc = Chain(ExtestPart, << >>, << >>, << >>)
    /\ walkin_state = 1
    /\ summary_list \in SummaryLists
    /\ summary_chain_dict = EmptyChain
    /\ printed = << >>
    /\ NoSession /\ NoWalk /\ NoDiff /\ NoStartup
    /\ NoCall

\* view_summary(), lines 704-741
view_summary ==
    /\ summary_chain_dict' = ChainList(EmptyChain, summary_list)
    /\ printed' = PrintedLines(summary_chain_dict')

ViewSummary ==
    /\ pc = "summary_in"
    /\ view_summary
    /\ pc' = "summary_done"
    /\ UNCHANGED <<extest_bit_info_dict, sample_bit_info_dict, board, urc, walkin_state,
                   summary_list, walkin_zero_string, walkin_ones_string,
                   walkin_zero_output_list, walkin_ones_output_list, step, dr_init_bits,
                   dr_init_bits_sample, summary_dict, data_bits_old, data_bits_new,
                   walk_trace>>
    /\ UNCHANGED startup_vars
    /\ UNCHANGED call_vars

NextSummary == ViewSummary

SpecSummary == InitSummary /\ [][NextSummary]_vars

(***************************************************************************)
(* Properties of the classifier (SpecSummary)                              *)
(***************************************************************************)
VerdictWords == {"Interference", "Partial", "Not connected"}

\* the match list view_summary built for a printed key
ListOf(key) == summary_chain_dict.val[key]

RECURSIVE ObservedWith(_, _, _)
ObservedWith(r, j, io) ==
    IF j > Len(summary_list[r]["sample"]) THEN << >>
    ELSE (IF summary_list[r]["sampleio"][j] = io
          THEN <<summary_list[r]["sample"][j]>> ELSE << >>)
         \o ObservedWith(r, j + 1, io)

\* the matches of the occurrences i, i+1, ... of pin P in record r
RECURSIVE OccurrencesFrom(_, _, _)
OccurrencesFrom(P, r, i) ==
    IF i > Len(summary_list[r]["extest"]) THEN << >>
    ELSE (IF summary_list[r]["extest"][i] = P
          THEN ObservedWith(r, 1, summary_list[r]["extestio"][i]) ELSE << >>)
         \o OccurrencesFrom(P, r, i + 1)

\* the concatenation over the records r, r+1, ... of the session
RECURSIVE RecordsFrom(_, _)
RecordsFrom(P, r) ==
    IF r > Len(summary_list) THEN << >>
    ELSE OccurrencesFrom(P, r, 1) \o RecordsFrom(P, r + 1)

\* the driver pin names attributed anywhere in the session
AttributedDrivers ==
    {summary_list[r]["extest"][i] :
        r \in 1 .. Len(summary_list), i \in 1 .. MaxAttr} \cap SummaryDriverNames

OccursIn(P, r) == \E i \in 1 .. Len(summary_list[r]["extest"]) : summary_list[r]["extest"][i] = P

\* C2: the match list of every driver pin P is, in step order, the
\* concatenation over the records and over P's occurrences among a record's
\* driver transitions of that record's observed names with P's direction.
C2_MatchListIsSameStepSameDirection ==
    pc = "summary_done" =>
        /\ DOMAIN summary_chain_dict.val =
               {P \in SummaryDriverNames : \E r \in 1 .. Len(summary_list) : OccursIn(P, r)}
        /\ \A P \in DOMAIN summary_chain_dict.val : ListOf(P) = RecordsFrom(P, 1)

\* C2 witness: P0 walked in both records with opposite directions, the observed
\* side of each record holding both directions, so that a match list that
\* ignored the step or the direction would differ
C2_Witness ==
    /\ pc = "summary_done"
    /\ Len(summary_list) = 2
    /\ summary_list[1]["extest"] = <<"P0", "P0">>
    /\ summary_list[1]["extestio"] = <<"1 -> 0", "1 -> 0">>
    /\ summary_list[1]["sample"] = <<"S0", "S1">>
    /\ summary_list[1]["sampleio"] = <<"1 -> 0", "0 -> 1">>
    /\ summary_list[2]["extest"] = <<"P0", "P1">>
    /\ summary_list[2]["extestio"] = <<"0 -> 1", "1 -> 0">>
    /\ summary_list[2]["sample"] = <<"S1", "S0">>
    /\ summary_list[2]["sampleio"] = <<"1 -> 0", "0 -> 1">>
    /\ ListOf("P0") = <<"S0", "S0", "S0">>
    /\ ListOf("P1") = <<"S1">>

(***************************************************************************)
(* Properties of the walk pattern generator (SpecWalk)                     *)
(***************************************************************************)
\* the bit_index of the Output/Bidirectional cells of the driver Pin Map
OutputBits == {b \in DOMAIN extest_bit_info_dict : extest_bit_info_dict[b].io_type \in {"O", "B"}}

\* the k-th of them in ascending order
WalkedBit(k) == sorted(OutputBits)[k]

\* a cell with a control_bit and a disable_value
Gated(b) ==
    /\ extest_bit_info_dict[b].control_bit # None
    /\ extest_bit_info_dict[b].disable_value # None

ControlOf(b) == int(extest_bit_info_dict[b].control_bit)

\* the enable value 1 XOR d, as a register character
EnableOf(b) == IF extest_bit_info_dict[b].disable_value = "1" THEN "0" ELSE "1"

\* the baseline and the per-pin vectors of a level, as main() holds them
BaselineOf(level) == IF level = 0 THEN walkin_zero_string ELSE walkin_ones_string

VectorsOf(level) == IF level = 0 THEN walkin_zero_output_list ELSE walkin_ones_output_list

\* the character at a bit_index of a string in transport order
At(transport, b) == transport[Len(transport) - b]

\* the bit_index at which two strings in transport order differ
Differ(u, v) == {b \in BitIndex : At(u, b) # At(v, b)}

LevelChar(level) == IF level = 1 THEN "1" ELSE "0"

RestChar(level) == IF level = 1 THEN "0" ELSE "1"

Unshared(b) ==
    \A o \in OutputBits :
        (Gated(o) /\ ControlOf(o) = ControlOf(b)) =>
            extest_bit_info_dict[o].disable_value = extest_bit_info_dict[b].disable_value

Written == OutputBits \cup {ControlOf(b) : b \in {o \in OutputBits : Gated(o)}}

\* C8 as claimed: every register bit the baseline does not write keeps, at
\* the same bit_index, the value it had in the live snapshot, which the
\* driver delivers in transport order.
C8_FrameAtSameBitIndex ==
    pc \in {"walk_setup", "walk_done"} =>
        \A level \in Level : \A b \in BitIndex \ Written :
            At(BaselineOf(level), b) = At(get_dr_in_string(urc), b)

LookupMap == IF pc = "extest" THEN extest_bit_info_dict ELSE sample_bit_info_dict

\* a differing bit with a Pin Map entry whose old value is "1" in a
\* walking-zeros pass or "0" in a walking-ones pass
ShouldAttribute(b) ==
    /\ data_bits_old[b + 1] # data_bits_new[b + 1]
    /\ b \in DOMAIN LookupMap
    /\ \/ walkin_state = 0 /\ data_bits_old[b + 1] = "1"
       \/ walkin_state = 1 /\ data_bits_old[b + 1] = "0"

AttributedBits == sorted({b \in BitIndex : ShouldAttribute(b)})

\* C10: on the EXTEST and on the SAMPLE side alike, the summary of a step
\* attributes exactly the differing bits that have a Pin Map entry and whose
\* old value is "1" in a walking-zeros pass or "0" in a walking-ones pass.
C10_DirectionalFilter ==
    pc \in {"extest", "sample"} =>
        /\ DOMAIN summary_dict = {pc, pc \o "io"}
        /\ Len(summary_dict[pc]) = Len(AttributedBits)
        /\ Len(summary_dict[pc \o "io"]) = Len(AttributedBits)
        /\ \A k \in 1 .. Len(AttributedBits) :
               /\ summary_dict[pc][k] = LookupMap[AttributedBits[k]].pin_name
               /\ summary_dict[pc \o "io"][k] =
                      (IF walkin_state = 0 THEN "1 -> 0" ELSE "0 -> 1")

\* C10 witness: a walking-zeros lookup over three differing bits: one falling
\* with an entry (attributed), one rising with an entry and one falling
\* without an entry (both left out)
C10_Witness ==
    /\ pc = "sample"
    /\ walkin_state = 0
    /\ data_bits_old = <<"1", "0", "1">>
    /\ data_bits_new = <<"0", "1", "0">>
    /\ DOMAIN sample_bit_info_dict = {0, 1}
    /\ summary_dict["sample"] = <<"P0">>
    /\ summary_dict["sampleio"] = <<"1 -> 0">>

(***************************************************************************)
(* The session: the loop of main(), lines 893-946, with the chain and the  *)
(* board it drives.                                                        *)
(***************************************************************************)
\* width of the SAMPLE device's boundary-scan register
SWidth == 2

SampleBitIndex == 0 .. (SWidth - 1)

\* what a cell of the SAMPLE device captures: the level of a driver pin it is
\* wired to, a constant low level, or a free-running signal that has changed
\* at every capture
Low == [kind |-> "low", bit |-> 0]

Toggle == [kind |-> "toggle", bit |-> 0]

Pin(b) == [kind |-> "pin", bit |-> b]

\* urc.part(n)
part(u, n) == [u EXCEPT !.part = n]

\* urjtag_set_instruction, lines 218-233: selects the part, sets the
\* instruction and shifts the IR; returns False as soon as one of the three
\* raises, with what was done before left in place
urjtag_set_instruction(u, part_no, instruction) ==
    IF part_no \notin u.present THEN [u EXCEPT !.failed = TRUE]
    ELSE IF part_no \in u.refuses THEN [part(u, part_no) EXCEPT !.failed = TRUE]
    ELSE [part(u, part_no) EXCEPT !.ir[part_no] = instruction,
                                  !.issued = @ \cup {"shift_ir"}]

\* urc.set_dr_in(bits): the input register string of the active part
set_dr_in(u, bits) == [u EXCEPT !.dr_in[u.part] = bits]

\* the level a sample cell captures
CapturedBit(u, source) ==
    IF source.kind = "pin" THEN u.pins[Len(u.pins) - source.bit]
    ELSE IF source.kind = "toggle" THEN (IF u.phase = "0" THEN "1" ELSE "0")
    ELSE "0"

\* the SAMPLE device's register after Capture-DR, in transport order
Captured(u, wiring) ==
    Reverse([k \in 1 .. SWidth |-> CapturedBit(u, wiring[k - 1])])

\* urc.shift_dr(): one DR scan of the chain. The SAMPLE device captures its
\* pins, the EXTEST device drives its input register string on its pins; a
\* device left in BYPASS shifts out the one "0" of its bypass register.
shift_dr(u, wiring) ==
    [u EXCEPT !.pins = IF u.ir[ExtestPart] = EXTEST THEN u.dr_in[ExtestPart] ELSE @,
              !.dr_out = IF u.part # SamplePart THEN @
                         ELSE IF u.ir[SamplePart] = SAMPLE_PRELOAD
                              THEN Captured(u, wiring) ELSE <<"0">>,
              !.phase = IF u.part = SamplePart
                        THEN (IF @ = "0" THEN "1" ELSE "0") ELSE @,
              !.issued = @ \cup {"shift_dr"}]

\* urc.get_dr_out_string()
get_dr_out_string(u) == u.dr_out

\* get_sample_shift_init_bits, lines 638-651, as a change of the chain
get_sample_shift_init_bits(u, wiring) ==
    shift_dr(part(urjtag_set_instruction(u, SamplePart, SAMPLE_PRELOAD), SamplePart), wiring)

\* the driver Pin Maps of the session: output cells of type O, gated ones
\* with a disable_value
SessionMaps ==
    {d \in PinMaps :
        \A b \in DOMAIN d :
            /\ d[b].io_type # "B"
            /\ d[b].control_bit # None => d[b].disable_value # None}

\* what a cell of the SAMPLE device is and what it is wired to: a cell with a
\* pin sees a driver output pin, a constant or a free-running signal, a cell
\* without a pin (kept as C, or dropped) no driver pin
SampleCells(outputs) ==
    {[io_type |-> "absent", source |-> Low]}
    \cup {[io_type |-> "I", source |-> x] : x \in {Low, Toggle} \cup {Pin(b) : b \in outputs}}
    \cup {[io_type |-> "C", source |-> x] : x \in {Low, Toggle}}

\* the live snapshots a session starts from
SessionSnapshots ==
    {[k \in 1 .. Width |-> "0"], [k \in 1 .. Width |-> IF k = 1 THEN "1" ELSE "0"]}

Init ==
    /\ pc = "start"
    /\ extest_bit_info_dict \in SessionMaps
    /\ \E cells \in [SampleBitIndex ->
                        SampleCells({b \in DOMAIN extest_bit_info_dict :
                                        IsOutput(extest_bit_info_dict[b])})] :
           /\ sample_bit_info_dict =
                  MapOf([b \in SampleBitIndex |->
                            [io_type |-> cells[b].io_type, control_bit |-> None,
                             disable_value |-> None]], SampleNames)
           /\ board = [b \in SampleBitIndex |-> cells[b].source]
    /\ \E snapshot \in SessionSnapshots :
           urc = Chain(ExtestPart, snapshot, snapshot, << >>)
    /\ walkin_state = -1
    /\ summary_list = << >>
    /\ step = 0
    /\ dr_init_bits = << >>
    /\ dr_init_bits_sample = << >>
    /\ walk_trace = << >>
    /\ summary_chain_dict = EmptyChain
    /\ printed = << >>
    /\ NoWalk /\ NoDiff /\ NoStartup
    /\ NoCall

\* line 897
Start ==
    /\ pc = "start"
    /\ urc' = urjtag_set_instruction(urc, ExtestPart, EXTEST)
    /\ pc' = "setup"
    /\ UNCHANGED <<extest_bit_info_dict, sample_bit_info_dict, board, walkin_state,
                   summary_list, walkin_zero_string, walkin_ones_string,
                   walkin_zero_output_list, walkin_ones_output_list, step, dr_init_bits,
                   dr_init_bits_sample, summary_dict, data_bits_old, data_bits_new,
                   summary_chain_dict, printed, walk_trace>>
    /\ UNCHANGED startup_vars
    /\ UNCHANGED call_vars

\* lines 900 and 906; a Pin Map that is None has no items()
Setup ==
    /\ pc = "setup"
    /\ extest_device.loaded # None
    /\ walkin_zero_string' =
           get_walkin_zeros_or_once_setup_string(urc, extest_bit_info_dict, 0)
    /\ walkin_ones_string' =
           get_walkin_zeros_or_once_setup_string(urc, extest_bit_info_dict, 1)
    /\ pc' = "zeros_base"
    /\ UNCHANGED <<extest_bit_info_dict, sample_bit_info_dict, board, urc, walkin_state,
                   summary_list, walkin_zero_output_list, walkin_ones_output_list,
                   step, dr_init_bits, dr_init_bits_sample, summary_dict,
                   data_bits_old, data_bits_new, summary_chain_dict, printed,
                   walk_trace>>
    /\ UNCHANGED startup_vars
    /\ UNCHANGED call_vars

\* lines 913-914
ZerosBase ==
    /\ pc = "zeros_base"
    /\ urc' = shift_dr(set_dr_in(urc, walkin_zero_string), board)
    /\ pc' = "zeros_sample"
    /\ UNCHANGED <<extest_bit_info_dict, sample_bit_info_dict, board, walkin_state,
                   summary_list, walkin_zero_string, walkin_ones_string,
                   walkin_zero_output_list, walkin_ones_output_list, step, dr_init_bits,
                   dr_init_bits_sample, summary_dict, data_bits_old, data_bits_new,
                   summary_chain_dict, printed, walk_trace>>
    /\ UNCHANGED startup_vars
    /\ UNCHANGED call_vars

\* lines 930-932
OnesBase ==
    /\ pc = "ones_base"
    /\ urc' = shift_dr(set_dr_in(urjtag_set_instruction(urc, ExtestPart, EXTEST),
                                 walkin_ones_string), board)
    /\ pc' = "ones_sample"
    /\ UNCHANGED <<extest_bit_info_dict, sample_bit_info_dict, board, walkin_state,
                   summary_list, walkin_zero_string, walkin_ones_string,
                   walkin_zero_output_list, walkin_ones_output_list, step, dr_init_bits,
                   dr_init_bits_sample, summary_dict, data_bits_old, data_bits_new,
                   summary_chain_dict, printed, walk_trace>>
    /\ UNCHANGED startup_vars
    /\ UNCHANGED call_vars

\* lines 917 and 935: dr_init_bits_sample = get_sample_shift_init_bits(...)
InitSample ==
    /\ pc \in {"zeros_sample", "ones_sample"}
    /\ urc' = get_sample_shift_init_bits(urc, board)
    /\ dr_init_bits_sample' = get_dr_out_string(urc')
    /\ pc' = IF pc = "zeros_sample" THEN "zeros_list" ELSE "ones_list"
    /\ UNCHANGED <<extest_bit_info_dict, sample_bit_info_dict, board, walkin_state,
                   summary_list, walkin_zero_string, walkin_ones_string,
                   walkin_zero_output_list, walkin_ones_output_list, step, dr_init_bits,
                   summary_dict, data_bits_old, data_bits_new,
                   summary_chain_dict, printed, walk_trace>>
    /\ UNCHANGED startup_vars
    /\ UNCHANGED call_vars

\* faulty variant of AfterLoop: the summary is viewed after either pass
AfterLoop_OnePass(state) == "summary"

\* where main() goes when the loop of set_urc_bits is over
AfterLoop(state) == IF state = 0 THEN "ones_base" ELSE "summary"

\* lines 922-925 and the entry of set_urc_bits (line 592)
ZerosList ==
    /\ pc = "zeros_list"
    /\ walkin_zero_output_list' =
           get_list_of_walkins_output_string(extest_bit_info_dict, walkin_zero_string, 0)
    /\ walkin_state' = 0
    /\ dr_init_bits' = walkin_zero_string
    /\ step' = 1
    /\ pc' = IF walkin_zero_output_list' = << >> THEN AfterLoop(0) ELSE "step_push"
    /\ UNCHANGED <<extest_bit_info_dict, sample_bit_info_dict, board, urc,
                   summary_list, walkin_zero_string, walkin_ones_string,
                   walkin_ones_output_list, dr_init_bits_sample, summary_dict,
                   data_bits_old, data_bits_new, summary_chain_dict, printed,
                   walk_trace>>
    /\ UNCHANGED startup_vars
    /\ UNCHANGED call_vars

\* faulty variant of OnesList: the pass flag keeps the level of the pass before
OnesList_ZerosFlag ==
    /\ pc = "ones_list"
    /\ walkin_ones_output_list' =
           get_list_of_walkins_output_string(extest_bit_info_dict, walkin_ones_string, 1)
    /\ walkin_state' = 0
    /\ dr_init_bits' = walkin_ones_string
    /\ step' = 1
    /\ pc' = IF walkin_ones_output_list' = << >> THEN AfterLoop(1) ELSE "step_push"
    /\ UNCHANGED <<extest_bit_info_dict, sample_bit_info_dict, board, urc,
                   summary_list, walkin_zero_string, walkin_ones_string,
                   walkin_zero_output_list, dr_init_bits_sample, summary_dict,
                   data_bits_old, data_bits_new, summary_chain_dict, printed,
                   walk_trace>>
    /\ UNCHANGED startup_vars
    /\ UNCHANGED call_vars

\* lines 936-939 and the entry of set_urc_bits (line 592)
OnesList ==
    /\ pc = "ones_list"
    /\ walkin_ones_output_list' =
           get_list_of_walkins_output_string(extest_bit_info_dict, walkin_ones_string, 1)
    /\ walkin_state' = 1
    /\ dr_init_bits' = walkin_ones_string
    /\ step' = 1
    /\ pc' = IF walkin_ones_output_list' = << >> THEN AfterLoop(1) ELSE "step_push"
    /\ UNCHANGED <<extest_bit_info_dict, sample_bit_info_dict, board, urc,
                   summary_list, walkin_zero_string, walkin_ones_string,
                   walkin_zero_output_list, dr_init_bits_sample, summary_dict,
                   data_bits_old, data_bits_new, summary_chain_dict, printed,
                   walk_trace>>
    /\ UNCHANGED startup_vars
    /\ UNCHANGED call_vars

\* bits_string_list of the running call of set_urc_bits
bits_string_list == IF walkin_state = 0 THEN walkin_zero_output_list ELSE walkin_ones_output_list

\* faulty variant of StepPush: the vector of the next step is pushed ahead
StepPush_Ahead ==
    /\ pc = "step_push"
    /\ summary_dict' = << >>
    /\ urc' = shift_dr(set_dr_in(urjtag_set_instruction(part(urc, ExtestPart),
                                                         ExtestPart, EXTEST),
                                 bits_string_list[Min(step + 1, Len(bits_string_list))]),
                       board)
    /\ pc' = "step_extest"
    /\ UNCHANGED <<extest_bit_info_dict, sample_bit_info_dict, board, walkin_state,
                   summary_list, walkin_zero_string, walkin_ones_string,
                   walkin_zero_output_list, walkin_ones_output_list, step, dr_init_bits,
                   dr_init_bits_sample, data_bits_old, data_bits_new,
                   summary_chain_dict, printed, walk_trace>>
    /\ UNCHANGED startup_vars
    /\ UNCHANGED call_vars

\* lines 595-601: a fresh summary_dict, the vector pushed and shifted
StepPush ==
    /\ pc = "step_push"
    /\ summary_dict' = << >>
    /\ urc' = shift_dr(set_dr_in(urjtag_set_instruction(part(urc, ExtestPart),
                                                         ExtestPart, EXTEST),
                                 bits_string_list[step]), board)
    /\ pc' = "step_extest"
    /\ UNCHANGED <<extest_bit_info_dict, sample_bit_info_dict, board, walkin_state,
                   summary_list, walkin_zero_string, walkin_ones_string,
                   walkin_zero_output_list, walkin_ones_output_list, step, dr_init_bits,
                   dr_init_bits_sample, data_bits_old, data_bits_new,
                   summary_chain_dict, printed, walk_trace>>
    /\ UNCHANGED startup_vars
    /\ UNCHANGED call_vars

\* faulty variant of StepExtest: every step is compared with the baseline of the pass
StepExtest_PassBaseline ==
    /\ pc = "step_extest"
    /\ data_bits_old' = Reverse(dr_init_bits)
    /\ data_bits_new' = Reverse(bits_string_list[step])
    /\ summary_dict' = dr_out_changes_lookup(data_bits_old', data_bits_new',
                                             extest_bit_info_dict, summary_dict,
                                             "extest", walkin_state)
    /\ dr_init_bits' = dr_init_bits
    /\ pc' = "step_sample"
    /\ UNCHANGED <<extest_bit_info_dict, sample_bit_info_dict, board, urc, walkin_state,
                   summary_list, walkin_zero_string, walkin_ones_string,
                   walkin_zero_output_list, walkin_ones_output_list, step,
                   dr_init_bits_sample, summary_chain_dict, printed, walk_trace>>
    /\ UNCHANGED startup_vars
    /\ UNCHANGED call_vars

\* lines 603-604: dr_shift_comapre on the EXTEST side
StepExtest ==
    /\ pc = "step_extest"
    /\ data_bits_old' = Reverse(dr_init_bits)
    /\ data_bits_new' = Reverse(bits_string_list[step])
    /\ summary_dict' = dr_out_changes_lookup(data_bits_old', data_bits_new',
                                             extest_bit_info_dict, summary_dict,
                                             "extest", walkin_state)
    /\ dr_init_bits' = Reverse(data_bits_new')
    /\ pc' = "step_sample"
    /\ UNCHANGED <<extest_bit_info_dict, sample_bit_info_dict, board, urc, walkin_state,
                   summary_list, walkin_zero_string, walkin_ones_string,
                   walkin_zero_output_list, walkin_ones_output_list, step,
                   dr_init_bits_sample, summary_chain_dict, printed, walk_trace>>
    /\ UNCHANGED startup_vars
    /\ UNCHANGED call_vars

\* lines 607-609: sample_run (lines 677-680) on the SAMPLE side; line 537
\* cannot look a differing bit up in a Pin Map that is None
StepSample ==
    /\ pc = "step_sample"
    /\ urc' = shift_dr(urjtag_set_instruction(urc, SamplePart, SAMPLE_PRELOAD), board)
    /\ data_bits_old' = Reverse(dr_init_bits_sample)
    /\ data_bits_new' = Reverse(get_dr_out_string(urc'))
    /\ sample_device.loaded = None => differing_bits(data_bits_old', data_bits_new') = << >>
    /\ summary_dict' = dr_out_changes_lookup(data_bits_old', data_bits_new',
                                             sample_bit_info_dict, summary_dict,
                                             "sample", walkin_state)
    /\ dr_init_bits_sample' = Reverse(data_bits_new')
    /\ pc' = "step_append"
    /\ UNCHANGED <<extest_bit_info_dict, sample_bit_info_dict, board, walkin_state,
                   summary_list, walkin_zero_string, walkin_ones_string,
                   walkin_zero_output_list, walkin_ones_output_list, step,
                   dr_init_bits, summary_chain_dict, printed, walk_trace>>
    /\ UNCHANGED startup_vars
    /\ UNCHANGED call_vars

\* line 612, and the next turn of the loop of line 593
StepAppend ==
    /\ pc = "step_append"
    /\ summary_list' = Append(summary_list, summary_dict)
    /\ walk_trace' = Append(walk_trace,
                            [state |-> walkin_state, vector |-> bits_string_list[step],
                             sample_old |-> data_bits_old, sample_new |-> data_bits_new])
    /\ step' = step + 1
    /\ pc' = IF step < Len(bits_string_list) THEN "step_push" ELSE AfterLoop(walkin_state)
    /\ UNCHANGED <<extest_bit_info_dict, sample_bit_info_dict, board, urc, walkin_state,
                   walkin_zero_string, walkin_ones_string,
                   walkin_zero_output_list, walkin_ones_output_list, dr_init_bits,
                   dr_init_bits_sample, summary_dict, data_bits_old, data_bits_new,
                   summary_chain_dict, printed>>
    /\ UNCHANGED startup_vars
    /\ UNCHANGED call_vars

\* line 943
Summary ==
    /\ pc = "summary"
    /\ view_summary
    /\ pc' = "reset"
    /\ UNCHANGED <<extest_bit_info_dict, sample_bit_info_dict, board, urc, walkin_state,
                   summary_list, walkin_zero_string, walkin_ones_string,
                   walkin_zero_output_list, walkin_ones_output_list, step, dr_init_bits,
                   dr_init_bits_sample, summary_dict, data_bits_old, data_bits_new,
                   walk_trace>>
    /\ UNCHANGED startup_vars
    /\ UNCHANGED call_vars

\* faulty variant of Reset: the records of the session are kept
Reset_KeepsSummary ==
    /\ pc = "reset"
    /\ pc' = "start"
    /\ UNCHANGED <<extest_bit_info_dict, sample_bit_info_dict, board, urc, walkin_state,
                   summary_list, walkin_zero_string, walkin_ones_string,
                   walkin_zero_output_list, walkin_ones_output_list, step, dr_init_bits,
                   dr_init_bits_sample, summary_dict, data_bits_old, data_bits_new,
                   summary_chain_dict, printed, walk_trace>>
    /\ UNCHANGED startup_vars
    /\ UNCHANGED call_vars

\* line 945, and the next turn of the loop of line 893
Reset ==
    /\ pc = "reset"
    /\ summary_list' = << >>
    /\ walk_trace' = << >>
    /\ pc' = "start"
    /\ UNCHANGED <<extest_bit_info_dict, sample_bit_info_dict, board, urc, walkin_state,
                   walkin_zero_string, walkin_ones_string,
                   walkin_zero_output_list, walkin_ones_output_list, step, dr_init_bits,
                   dr_init_bits_sample, summary_dict, data_bits_old, data_bits_new,
                   summary_chain_dict, printed>>
    /\ UNCHANGED startup_vars
    /\ UNCHANGED call_vars

Next ==
    \/ Start \/ Setup \/ ZerosBase \/ OnesBase \/ InitSample \/ ZerosList \/ OnesList
    \/ StepPush \/ StepExtest \/ StepSample \/ StepAppend \/ Summary \/ Reset

Spec == Init /\ [][Next]_vars

(***************************************************************************)
(* Properties of the session (Spec)                                        *)
(***************************************************************************)
DriverName(b) == extest_bit_info_dict[b].pin_name

ObservedName(b) == sample_bit_info_dict[b].pin_name

\* the steps of the session's trace in which the cell at bit_index b is walked:
\* the k-th step of a pass walks the k-th output cell
StepsOf(b) ==
    {k \in 1 .. Len(walk_trace) :
        WalkedBit(((k - 1) % Cardinality(OutputBits)) + 1) = b}

\* in one step, the captured bit of sample cell c goes from the rest level to
\* the driven level, and no other mapped sample cell changes
FollowsAlone(r, c) ==
    /\ r.sample_old[c + 1] = RestChar(r.state)
    /\ r.sample_new[c + 1] = LevelChar(r.state)
    /\ \A o \in DOMAIN sample_bit_info_dict \ {c} : r.sample_old[o + 1] = r.sample_new[o + 1]

\* the driver pin at b is wired to the observed cell c and nothing else
\* observed changes while it is walked
WiredAlone(b, c) ==
    /\ c \in DOMAIN sample_bit_info_dict
    /\ \A k \in StepsOf(b) : FollowsAlone(walk_trace[k], c)

Line(key, text) == \E k \in 1 .. Len(printed) : printed[k] = <<key, text>>

LinesOf(key) == {k \in 1 .. Len(printed) : printed[k][1] = key}

\* no record that attributes the key attributes an observed transition
NothingObserved(key) ==
    \A r \in 1 .. Len(summary_list) :
        (\E i \in 1 .. Len(summary_list[r]["extest"]) : summary_list[r]["extest"][i] = key)
            => summary_list[r]["sample"] = << >>

loop_vars == <<walkin_state, summary_list, walkin_zero_string, walkin_ones_string,
               walkin_zero_output_list, walkin_ones_output_list, step, dr_init_bits,
               dr_init_bits_sample, summary_dict, data_bits_old, data_bits_new,
               summary_chain_dict, printed, walk_trace, board>>

\* the state of the loop before its first turn
NoLoop ==
    /\ walkin_state = -1
    /\ summary_list = << >>
    /\ summary_chain_dict = EmptyChain
    /\ printed = << >>
    /\ NoSession /\ NoWalk /\ NoDiff

\* lines 849-860 for one device
WithIdFields(device) ==
    LET binary == decimal_to_32bit_binary(device.device_id)
    IN  [device EXCEPT !.device_id_binary = binary,
                       !.stepping_id = stepping_id(binary),
                       !.parts_id = parts_id(binary),
                       !.manufacture_id = manufacture_id(binary)]

\* lines 849-860
DeviceIdFields ==
    /\ pc = "id_fields"
    /\ sample_device' = WithIdFields(sample_device)
    /\ extest_device' = WithIdFields(extest_device)
    /\ pc' = "fetch_sample"
    /\ UNCHANGED <<fs, urc, extest_bit_info_dict, sample_bit_info_dict>>
    /\ UNCHANGED loop_vars
    /\ UNCHANGED call_vars

(***************************************************************************)
(* Device-ID field extraction on its own: lines 849-860 for every device   *)
(* ID of at most MaxIdBits binary digits whose ones lie at the ends of the *)
(* three fields, at bit 0 or above bit 31.                                 *)
(***************************************************************************)
MaxIdBits == 34

\* the ends of the fields: bits 31-28, 27-12, 11-1, and the fixed bit 0
FieldEnds == {0, 1, 11, 12, 27, 28, 31}

FreeBits == FieldEnds \cup (IdWidth .. (MaxIdBits - 1))

\* the integer whose ones are at the bit numbers of S
DigitsOf(S) ==
    IF S = {} THEN <<"0">>
    ELSE LET top == CHOOSE x \in S : \A y \in S : y <= x
         IN  [k \in 1 .. (top + 1) |-> IF (top + 1 - k) \in S THEN "1" ELSE "0"]

DeviceIds == {DigitsOf(S) : S \in SUBSET FreeBits}

\* a device whose ID has been read back
Identified(device_id) == [NoDevice EXCEPT !.found = TRUE, !.device_id = device_id]

InitId ==
    /\ pc = "id_fields"
    /\ extest_device \in {Identified(id) : id \in DeviceIds}
    /\ sample_device = Identified(DigitsOf({0, 12, 28}))
    /\ fs = << >>
    /\ extest_bit_info_dict = << >>
    /\ sample_bit_info_dict = << >>
    /\ urc = Chain(ExtestPart, << >>, << >>, << >>)
    /\ NoLoop
    /\ NoCall

NextId == DeviceIdFields

SpecId == InitId /\ [][NextId]_vars

\* bit i of the integer
BitOf(device_id, i) ==
    IF i < Len(device_id) THEN device_id[Len(device_id) - i] ELSE "0"

\* bits hi..lo of the integer, most significant first
BitsOf(device_id, hi, lo) ==
    Join([k \in 1 .. (hi - lo + 1) |-> BitOf(device_id, hi + 1 - k)])

FieldsOfLow32(device) ==
    /\ device.stepping_id = BitsOf(device.device_id, 31, 28)
    /\ device.parts_id = BitsOf(device.device_id, 27, 12)
    /\ device.manufacture_id = BitsOf(device.device_id, 11, 1)

\* C18 as claimed: for every integer the driver returns, the stepping is
\* bits 31..28, the part bits 27..12 and the manufacturer bits 11..1 of the
\* device ID, whatever lies above bit 31.
C18_FieldsFromLow32Bits ==
    pc = "fetch_sample" =>
        FieldsOfLow32(sample_device) /\ FieldsOfLow32(extest_device)

\* the same for the device IDs below 2^32 only: holds
FieldsOf32BitIds ==
    (pc = "fetch_sample" /\ Len(extest_device.device_id) <= IdWidth) =>
        FieldsOfLow32(sample_device) /\ FieldsOfLow32(extest_device)

\* line 878: sample_part_file = fetch_part_file(...); an exception ends main()
FetchSample ==
    /\ pc = "fetch_sample"
    /\ sample_device' =
           [sample_device EXCEPT !.part_file =
               fetch_part_file(fs, sample_device.manufacture_id, sample_device.parts_id,
                               sample_device.stepping_id, BASE_FOLDER)]
    /\ pc' = IF sample_device'.part_file.raised THEN "raise" ELSE "fetch_extest"
    /\ UNCHANGED <<fs, extest_device, urc, extest_bit_info_dict, sample_bit_info_dict>>
    /\ UNCHANGED loop_vars
    /\ UNCHANGED call_vars

\* line 882: extest_part_file = fetch_part_file(...)
FetchExtest ==
    /\ pc = "fetch_extest"
    /\ extest_device' =
           [extest_device EXCEPT !.part_file =
               fetch_part_file(fs, extest_device.manufacture_id, extest_device.parts_id,
                               extest_device.stepping_id, BASE_FOLDER)]
    /\ pc' = IF extest_device'.part_file.raised THEN "raise" ELSE "load_sample"
    /\ UNCHANGED <<fs, sample_device, urc, extest_bit_info_dict, sample_bit_info_dict>>
    /\ UNCHANGED loop_vars
    /\ UNCHANGED call_vars

(***************************************************************************)
(* Part-file resolution on its own: lines 878-882 for two devices of one   *)
(* manufacturer and part and of different steppings, and for every choice  *)
(* of the three lookup tables of at most MaxLines lines.                   *)
(***************************************************************************)
MaxLines == 2

\* the two devices of the chain: IDCODEs that differ in the stepping only
SampleId == DigitsOf({0, 1, 12, 28})

ExtestId == DigitsOf({0, 1, 12, 28, 31})

\* the files of at most MaxLines lines drawn from a set of lines, and no file
Tables(lines) ==
    {Missing} \cup
    {[exists |-> TRUE, lines |-> t] : t \in UNION {[1 .. n -> lines] : n \in 0 .. MaxLines}}

ManufacturerLines ==
    LET id == manufacture_id(decimal_to_32bit_binary(SampleId))
    IN  {<<id, "xilinx">>, <<id>>, <<id, "", " xilinx ">>, <<"00000000010", "altera">>}

PartLines ==
    LET id == parts_id(decimal_to_32bit_binary(SampleId))
    IN  {<<id, "xc2c">>, <<id>>, <<"0000000000000010", "xc9500">>}

SteppingLines ==
    {<<stepping_id(decimal_to_32bit_binary(SampleId)), "xc2c256">>,
     <<stepping_id(decimal_to_32bit_binary(ExtestId)), "xc2c512">>,
     <<stepping_id(decimal_to_32bit_binary(SampleId))>>}

PartsPath == BASE_FOLDER \o "xilinx" \o PARTS_FILE

SteppingsPath == BASE_FOLDER \o "xilinx" \o "/" \o "xc2c" \o STEPPINGS_FILE

InitFetch ==
    /\ pc = "fetch_sample"
    /\ sample_device = WithIdFields(Identified(SampleId))
    /\ extest_device = WithIdFields(Identified(ExtestId))
    /\ \E m \in Tables(ManufacturerLines), p \in Tables(PartLines), s \in Tables(SteppingLines) :
           fs = ((BASE_FOLDER \o MANUFACTURERS_FILE) :> m)
                    @@ (PartsPath :> p) @@ (SteppingsPath :> s)
    /\ extest_bit_info_dict = << >>
    /\ sample_bit_info_dict = << >>
    /\ urc = Chain(ExtestPart, << >>, << >>, << >>)
    /\ NoLoop
    /\ NoCall

NextFetch == FetchSample \/ FetchExtest

SpecFetch == InitFetch /\ [][NextFetch]_vars

\* what the three tables resolve a device to: nothing as soon as one of its
\* identifiers has no folder name in its table
Resolved(device) ==
    LET m == search_folders_by_device_id(fs, device.manufacture_id,
                                         BASE_FOLDER \o MANUFACTURERS_FILE)
        p == IF m = None THEN None
             ELSE search_folders_by_device_id(fs, device.parts_id,
                                              BASE_FOLDER \o m \o PARTS_FILE)
        s == IF p = None THEN None
             ELSE search_folders_by_device_id(fs, device.stepping_id,
                      BASE_FOLDER \o m \o "/" \o p \o STEPPINGS_FILE)
    IN  IF s = None THEN NoPartFile
        ELSE [raised |-> FALSE, found |-> TRUE,
              list |-> <<m, p, s, BASE_FOLDER \o m \o "/" \o p \o "/" \o s>>]

\* C15 as claimed: fetch_part_file returns None whenever the manufacturer,
\* part or stepping identifier is absent from its lookup table and the
\* resolved path otherwise; a missing identifier produces no other failure.
C15_NotFoundIsNone ==
    /\ pc \in {"fetch_extest", "load_sample", "raise"} =>
           sample_device.part_file = Resolved(sample_device)
    /\ (pc = "load_sample" \/ (pc = "raise" /\ ~sample_device.part_file.raised)) =>
           extest_device.part_file = Resolved(extest_device)

\* line 887: sample_bit_info_dict = get_dictionary_from_bsdl(sample_part_file[3]);
\* subscripting the None of a part file that was not found raises TypeError
LoadSample ==
    /\ pc = "load_sample"
    /\ LET loaded == IF sample_device.part_file.found
                     THEN get_dictionary_from_bsdl(fs, sample_device.part_file.list[4])
                     ELSE [kind |-> "raise", dict |-> << >>]
       IN  /\ sample_bit_info_dict' = loaded.dict
           /\ sample_device' = [sample_device EXCEPT !.loaded = loaded.kind]
           /\ pc' = IF loaded.kind = "raise" THEN "raise" ELSE "load_extest"
    /\ UNCHANGED <<fs, extest_device, urc, extest_bit_info_dict>>
    /\ UNCHANGED loop_vars
    /\ UNCHANGED call_vars

\* lines 888-890: extest_bit_info_dict = get_dictionary_from_bsdl(extest_part_file[3]),
\* then the prompt before the loop
LoadExtest ==
    /\ pc = "load_extest"
    /\ LET loaded == IF extest_device.part_file.found
                     THEN get_dictionary_from_bsdl(fs, extest_device.part_file.list[4])
                     ELSE [kind |-> "raise", dict |-> << >>]
       IN  /\ extest_bit_info_dict' = loaded.dict
           /\ extest_device' = [extest_device EXCEPT !.loaded = loaded.kind]
           /\ pc' = IF loaded.kind = "raise" THEN "raise" ELSE "start"
    /\ UNCHANGED <<fs, sample_device, urc, sample_bit_info_dict>>
    /\ UNCHANGED loop_vars
    /\ UNCHANGED call_vars

(***************************************************************************)
(* Pin Map construction on its own: lines 887-888 for every pin table of   *)
(* at most MaxLines lines behind the SAMPLE device's part file.            *)
(***************************************************************************)
\* the part files of the two devices, as line 387 returns them
PartFile(stepping_filename) ==
    [raised |-> FALSE, found |-> TRUE,
     list |-> <<"xilinx", "xc2c", stepping_filename,
                BASE_FOLDER \o "xilinx" \o "/" \o "xc2c" \o "/" \o stepping_filename>>]

SamplePartFile == PartFile("xc2c256")

ExtestPartFile == PartFile("xc2c512")

\* the `bit` lines of a pin table: bit number, cell type, safe value, pin
\* name, and for some the three control columns
BitLines ==
    {<<"bit", b, t, "X", n>> :
        b \in {"0", "1"}, t \in {"O", "I", "B", "C", "X"}, n \in {"P", "*"}}
    \cup {<<"bit", b, t, "X", n, "2", "1", "Z">> :
        b \in {"0", "1"}, t \in {"O", "C"}, n \in {"P", "*"}}

\* lines that do not start with 'bit': a comment, another statement, and a
\* `bit` line behind a leading blank
OtherLines ==
    {<<"--", "bit", "0", "O", "X", "P">>,
     <<"instruction", "EXTEST", "00000000">>,
     <<"", "bit", "0", "O", "X", "P">>}

\* `bit` lines with too few words or without a bit number
MalformedLines == {<<"bit", "0", "O">>, <<"bits", "width", "O", "X", "P">>}

PinTableLines == BitLines \cup OtherLines \cup MalformedLines

ExtestPinTables ==
    {Missing,
     [exists |-> TRUE, lines |-> << >>],
     [exists |-> TRUE, lines |-> <<<<"bit", "0", "O", "X", "P0">>>>],
     [exists |-> TRUE, lines |-> <<<<"bit", "0", "O">>>>]}

InitBsdl ==
    /\ pc = "load_sample"
    /\ \E found \in BOOLEAN :
          sample_device = [WithIdFields(Identified(SampleId)) EXCEPT
                              !.part_file = IF found THEN SamplePartFile ELSE NoPartFile]
    /\ \E found \in BOOLEAN :
          extest_device = [WithIdFields(Identified(ExtestId)) EXCEPT
                              !.part_file = IF found THEN ExtestPartFile ELSE NoPartFile]
    /\ \E s \in Tables(PinTableLines), e \in ExtestPinTables :
           fs = (SamplePartFile.list[4] :> s) @@ (ExtestPartFile.list[4] :> e)
    /\ extest_bit_info_dict = << >>
    /\ sample_bit_info_dict = << >>
    /\ urc = Chain(ExtestPart, << >>, << >>, << >>)
    /\ NoLoop
    /\ NoCall

NextBsdl == LoadSample \/ LoadExtest

SpecBsdl == InitBsdl /\ [][NextBsdl]_vars

\* the inclusion policy in words of the cell type and the pin name
PolicyKeeps(io_type, pin_name) ==
    \/ (io_type \in {"O", "I", "B"} /\ pin_name # "*")
    \/ (io_type = "C" /\ pin_name = "*")

\* the lines of a pin table that begin with `bit` and that the policy keeps
PolicyLines(lines) ==
    {k \in 1 .. Len(lines) :
        /\ lines[k] # << >>
        /\ lines[k][1] \in BitWords
        /\ PolicyKeeps(lines[k][3], lines[k][5])}

\* the map holds the cells of exactly those lines, the last line of a bit
\* number deciding its cell
HoldsPolicyLines(bit_info_dict, lines) ==
    /\ DOMAIN bit_info_dict = {int(lines[k][2]) : k \in PolicyLines(lines)}
    /\ \A k \in PolicyLines(lines) :
          (\A later \in PolicyLines(lines) : later > k => lines[later][2] # lines[k][2]) =>
              /\ bit_info_dict[int(lines[k][2])].io_type = lines[k][3]
              /\ bit_info_dict[int(lines[k][2])].pin_name = lines[k][5]

\* C19: whenever a Pin Map is built from a pin table, it includes the cell of
\* a `bit` line if and only if the line's direction is Output, Input or
\* Bidirectional and its pin name is not "*", or its direction is Control and
\* its pin name is "*"; lines that do not begin with `bit` contribute nothing.
C19_IncludePolicy ==
    /\ sample_device.loaded = "dict" =>
           HoldsPolicyLines(sample_bit_info_dict, fs[sample_device.part_file.list[4]].lines)
    /\ extest_device.loaded = "dict" =>
           HoldsPolicyLines(extest_bit_info_dict, fs[extest_device.part_file.list[4]].lines)

\* a map built from a table with a kept line and a dropped `bit` line
C19_Witness ==
    /\ pc = "start"
    /\ sample_device.loaded = "dict"
    /\ Cardinality(DOMAIN sample_bit_info_dict) = 1
    /\ LET lines == fs[sample_device.part_file.list[4]].lines
       IN  /\ Len(lines) = 2
           /\ \A k \in 1 .. 2 : lines[k][1] = "bit"
           /\ \E k \in 1 .. 2 : lines[k][5] = "*" /\ lines[k][3] = "O"

(***************************************************************************)
(* Properties of the session summary (Spec)                                *)
(***************************************************************************)
\* the positions of a turn of the loop of line 893 before its first walking step
BeforeFirstStep == {"start", "setup", "zeros_base", "zeros_sample", "zeros_list"}

\* the walking steps of the running turn whose record has been appended
StepsAppended ==
    (IF walkin_state = 0 THEN 0 ELSE Len(walkin_zero_output_list)) + step - 1

\* C16: the summary is empty when a session (a turn of the loop, starting
\* with its walking-zeros pass) begins, holds exactly one record per walking
\* step of the session done so far, up to and including the session's
\* classification, and is empty again when the next session begins: the
\* records classified are those of one session only.
C16_SummaryLifecycle ==
    /\ pc \in BeforeFirstStep => summary_list = << >>
    /\ pc \notin BeforeFirstStep => Len(summary_list) = StepsAppended
    /\ pc = "reset" =>
           Len(summary_list) = Len(walkin_zero_output_list) + Len(walkin_ones_output_list)

\* a second session under way, after a session whose records were classified
C16_Witness ==
    /\ pc = "step_append"
    /\ walkin_state = 0
    /\ printed # << >>
    /\ summary_list = << >>
    /\ Len(walkin_zero_output_list) >= 2

(***************************************************************************)
(* main() as a whole: the start-up of lines 832-890, the loop of lines     *)
(* 893-946 with the exceptions that leave it, and the handler of lines     *)
(* 948-951.                                                                *)
(***************************************************************************)
\* lines 832-834: urc = get_urjtag_setup(URJTAG_INDEX); None ends main()
Connect ==
    /\ pc = "connect"
    /\ pc' = IF urc.cable THEN "set_extest" ELSE "return"
    /\ UNCHANGED <<urc, extest_bit_info_dict, sample_bit_info_dict>>
    /\ UNCHANGED startup_vars
    /\ UNCHANGED loop_vars
    /\ UNCHANGED call_vars

\* line 837: urjtag_set_instruction(urc, extest_part_number, "EXTEST"), its
\* result dropped
SetExtest ==
    /\ pc = "set_extest"
    /\ urc' = urjtag_set_instruction(urc, ExtestPart, EXTEST)
    /\ pc' = "id_sample"
    /\ UNCHANGED <<extest_bit_info_dict, sample_bit_info_dict>>
    /\ UNCHANGED startup_vars
    /\ UNCHANGED loop_vars
    /\ UNCHANGED call_vars

\* lines 840-842: get_device_id of the SAMPLE device (lines 126-133)
IdSample ==
    /\ pc = "id_sample"
    /\ sample_device' = IF SamplePart \in urc.present
                        THEN Identified(urc.partid[SamplePart]) ELSE sample_device
    /\ pc' = IF SamplePart \in urc.present THEN "id_extest" ELSE "return"
    /\ UNCHANGED <<fs, extest_device, urc, extest_bit_info_dict, sample_bit_info_dict>>
    /\ UNCHANGED loop_vars
    /\ UNCHANGED call_vars

\* lines 844-846: get_device_id of the EXTEST device
IdExtest ==
    /\ pc = "id_extest"
    /\ extest_device' = IF ExtestPart \in urc.present
                        THEN Identified(urc.partid[ExtestPart]) ELSE extest_device
    /\ pc' = IF ExtestPart \in urc.present THEN "id_fields" ELSE "return"
    /\ UNCHANGED <<fs, sample_device, urc, extest_bit_info_dict, sample_bit_info_dict>>
    /\ UNCHANGED loop_vars
    /\ UNCHANGED call_vars

\* line 900 with a Pin Map that is None: AttributeError, which the handler of
\* line 948 does not catch
SetupRaises ==
    /\ pc = "setup"
    /\ extest_device.loaded = None
    /\ pc' = "raise"
    /\ UNCHANGED <<urc, extest_bit_info_dict, sample_bit_info_dict>>
    /\ UNCHANGED startup_vars
    /\ UNCHANGED loop_vars
    /\ UNCHANGED call_vars

\* lines 607-608 with a Pin Map that is None and a differing bit: the scan is
\* done, lines 528-529 have set the two lists, line 537 raises TypeError
StepSampleRaises ==
    /\ pc = "step_sample"
    /\ urc' = shift_dr(urjtag_set_instruction(urc, SamplePart, SAMPLE_PRELOAD), board)
    /\ data_bits_old' = Reverse(dr_init_bits_sample)
    /\ data_bits_new' = Reverse(get_dr_out_string(urc'))
    /\ sample_device.loaded = None
    /\ differing_bits(data_bits_old', data_bits_new') # << >>
    /\ summary_dict' = ("sample" :> << >>) @@ ("sampleio" :> << >>) @@ summary_dict
    /\ pc' = "raise"
    /\ UNCHANGED <<extest_bit_info_dict, sample_bit_info_dict, board, walkin_state,
                   summary_list, walkin_zero_string, walkin_ones_string,
                   walkin_zero_output_list, walkin_ones_output_list, step,
                   dr_init_bits, dr_init_bits_sample, summary_chain_dict, printed,
                   walk_trace>>
    /\ UNCHANGED startup_vars
    /\ UNCHANGED call_vars

\* the positions of the try block of lines 892-946
LoopPcs ==
    {"start", "setup", "zeros_base", "zeros_sample", "zeros_list", "ones_base",
     "ones_sample", "ones_list", "step_push", "step_extest", "step_sample",
     "step_append", "summary", "reset"}

\* KeyboardInterrupt between two statements of the try block
Interrupt ==
    /\ pc \in LoopPcs
    /\ pc' = "interrupted:" \o pc
    /\ UNCHANGED <<urc, extest_bit_info_dict, sample_bit_info_dict>>
    /\ UNCHANGED startup_vars
    /\ UNCHANGED loop_vars
    /\ UNCHANGED call_vars

\* the summary dicts dr_out_changes_lookup can be left at by an exception
\* between two of its statements: after line 528, or with the first names and
\* transitions of lines 543-544 and 547-548 appended, the last name possibly
\* without its transition
Torn(old, new, bsdl_dictionary, dict, summary_dict_key, state) ==
    LET att == AttributedChanges(differing_bits(old, new), bsdl_dictionary, state)
        names == [k \in 1 .. Len(att) |-> bsdl_dictionary[att[k].bit].pin_name]
        ios   == [k \in 1 .. Len(att) |-> Transition(att[k].old, att[k].new)]
    IN  {(summary_dict_key :> << >>) @@ dict}
        \cup {(summary_dict_key :> SubSeq(names, 1, done[1]))
                 @@ ((summary_dict_key \o "io") :> SubSeq(ios, 1, done[2])) @@ dict :
                 done \in {d \in (0 .. Len(names)) \X (0 .. Len(names)) :
                              d[2] \in {d[1] - 1, d[1]}}}

\* KeyboardInterrupt inside the lookup of line 603
InterruptExtestLookup ==
    /\ pc = "step_extest"
    /\ data_bits_old' = Reverse(dr_init_bits)
    /\ data_bits_new' = Reverse(bits_string_list[step])
    /\ summary_dict' \in Torn(data_bits_old', data_bits_new', extest_bit_info_dict,
                              summary_dict, "extest", walkin_state)
    /\ pc' = "interrupted:" \o pc
    /\ UNCHANGED <<extest_bit_info_dict, sample_bit_info_dict, board, urc, walkin_state,
                   summary_list, walkin_zero_string, walkin_ones_string,
                   walkin_zero_output_list, walkin_ones_output_list, step,
                   dr_init_bits, dr_init_bits_sample, summary_chain_dict, printed,
                   walk_trace>>
    /\ UNCHANGED startup_vars
    /\ UNCHANGED call_vars

\* KeyboardInterrupt inside the lookup of sample_run, line 608
InterruptSampleLookup ==
    /\ pc = "step_sample"
    /\ sample_device.loaded # None
    /\ urc' = shift_dr(urjtag_set_instruction(urc, SamplePart, SAMPLE_PRELOAD), board)
    /\ data_bits_old' = Reverse(dr_init_bits_sample)
    /\ data_bits_new' = Reverse(get_dr_out_string(urc'))
    /\ summary_dict' \in Torn(data_bits_old', data_bits_new', sample_bit_info_dict,
                              summary_dict, "sample", walkin_state)
    /\ pc' = "interrupted:" \o pc
    /\ UNCHANGED <<extest_bit_info_dict, sample_bit_info_dict, board, walkin_state,
                   summary_list, walkin_zero_string, walkin_ones_string,
                   walkin_zero_output_list, walkin_ones_output_list, step,
                   dr_init_bits, dr_init_bits_sample, summary_chain_dict, printed,
                   walk_trace>>
    /\ UNCHANGED startup_vars
    /\ UNCHANGED call_vars

\* lines 948-951: the message, then `urc.reset`, which names the method and
\* does not call it; main() returns
Handler ==
    /\ \E at \in LoopPcs :
          /\ pc = "interrupted:" \o at
          /\ pc' = "handled:" \o at
    /\ UNCHANGED <<urc, extest_bit_info_dict, sample_bit_info_dict>>
    /\ UNCHANGED startup_vars
    /\ UNCHANGED loop_vars
    /\ UNCHANGED call_vars

\* main() has caught a KeyboardInterrupt / has returned from its handler
Interrupted == {"interrupted:" \o at : at \in LoopPcs}

Handled == {"handled:" \o at : at \in LoopPcs}

\* the lookup tables of the two devices of the chain
GoodTables ==
    ((BASE_FOLDER \o MANUFACTURERS_FILE) :>
         [exists |-> TRUE,
          lines |-> <<<<manufacture_id(decimal_to_32bit_binary(SampleId)), "xilinx">>>>])
    @@ (SteppingsPath :>
         [exists |-> TRUE,
          lines |-> <<<<stepping_id(decimal_to_32bit_binary(SampleId)), "xc2c256">>,
                      <<stepping_id(decimal_to_32bit_binary(ExtestId)), "xc2c512">>>>])

PartsTables ==
    {Missing,
     [exists |-> TRUE,
      lines |-> <<<<parts_id(decimal_to_32bit_binary(SampleId)), "xc2c">>>>]}

\* the pin tables of the EXTEST device: two plain outputs, a gated output
\* with its control cell, a table with a short `bit` line, and no table
MainExtestTables ==
    {[exists |-> TRUE,
      lines |-> <<<<"bit", "0", "O", "X", "P0">>, <<"bit", "1", "O", "X", "P1">>>>],
     [exists |-> TRUE,
      lines |-> <<<<"bit", "0", "O", "X", "P0", "2", "1", "Z">>,
                  <<"bit", "2", "C", "X", "*">>>>],
     [exists |-> TRUE, lines |-> <<<<"bit", "0", "O">>>>],
     Missing}

\* the pin tables of the SAMPLE device: two inputs, and a table with a short
\* `bit` line
MainSampleTables ==
    {[exists |-> TRUE,
      lines |-> <<<<"bit", "0", "I", "X", "S0">>, <<"bit", "1", "I", "X", "S1">>>>],
     [exists |-> TRUE, lines |-> <<<<"bit", "0", "I">>>>]}

\* the boards: every sample cell on its driver pin, one on a free-running
\* signal, none wired
MainBoards ==
    {[b \in SampleBitIndex |-> Pin(b)],
     [b \in SampleBitIndex |-> IF b = 0 THEN Pin(0) ELSE Toggle],
     [b \in SampleBitIndex |-> Low]}

InitMain ==
    /\ pc = "connect"
    /\ \E cable \in BOOLEAN,
          present \in (SUBSET {ExtestPart, SamplePart}) \ {{}},
          refuses \in {{}, {SamplePart}} :
           urc = Detected(cable, present,
                          (ExtestPart :> ExtestId) @@ (SamplePart :> SampleId),
                          refuses, [k \in 1 .. Width |-> "0"])
    /\ \E p \in PartsTables, s \in MainSampleTables, e \in MainExtestTables :
           fs = GoodTables @@ (PartsPath :> p)
                    @@ (SamplePartFile.list[4] :> s) @@ (ExtestPartFile.list[4] :> e)
    /\ board \in MainBoards
    /\ sample_device = NoDevice
    /\ extest_device = NoDevice
    /\ extest_bit_info_dict = << >>
    /\ sample_bit_info_dict = << >>
    /\ walkin_state = -1
    /\ summary_list = << >>
    /\ summary_chain_dict = EmptyChain
    /\ printed = << >>
    /\ walk_trace = << >>
    /\ step = 0
    /\ dr_init_bits = << >>
    /\ dr_init_bits_sample = << >>
    /\ NoWalk /\ NoDiff
    /\ NoCall

NextMain ==
    \/ Connect \/ SetExtest \/ IdSample \/ IdExtest \/ DeviceIdFields
    \/ FetchSample \/ FetchExtest \/ LoadSample \/ LoadExtest
    \/ Next
    \/ SetupRaises \/ StepSampleRaises
    \/ Interrupt \/ InterruptExtestLookup \/ InterruptSampleLookup \/ Handler

SpecMain == InitMain /\ [][NextMain]_vars

(***************************************************************************)
(* Properties of main() as a whole (SpecMain)                              *)
(***************************************************************************)
\* C11 as claimed: when the operator interrupts the walking loop, main()
\* leaves the loop and, before it ends, classifies and prints the records the
\* summary had accumulated up to the interrupt.
C11_InterruptReports ==
    pc \in Handled =>
        /\ summary_chain_dict = ChainList(EmptyChain, summary_list)
        /\ printed = PrintedLines(summary_chain_dict)

\* C12 as claimed: when the operator interrupts the walking loop, a reset of
\* the driver has been issued by the time main() ends.
C12_InterruptResets ==
    pc \in Handled => "reset" \in urc.issued

\* C13 as claimed: a run that ends because a device ID could not be read, a
\* part file could not be resolved or a pin table could not be loaded has
\* issued no instruction-register shift and no data-register scan.
C13_NoWriteBeforeAbort ==
    pc \in {"return", "raise"} => urc.issued \cap {"shift_ir", "shift_dr"} = {}

\* C14 as claimed: once urjtag_set_instruction has returned False for the
\* EXTEST or the SAMPLE device, no scan vector is pushed to the driver any
\* more and no record is appended to the summary.
C14_FailureIsFatal ==
    [][urc.failed =>
          /\ urc'.dr_in = urc.dr_in
          /\ ~(pc \in {"zeros_base", "ones_base", "step_push"} /\ pc' \notin Interrupted)
          /\ Len(summary_list') <= Len(summary_list)]_vars

\* the positions inside a walking step of set_urc_bits
StepPcs == {"step_push", "step_extest", "step_sample", "step_append"}

\* a record with its four sequences, names and transitions of equal length
WholeRecord(record) ==
    /\ DOMAIN record = {"extest", "extestio", "sample", "sampleio"}
    /\ Len(record["extest"]) = Len(record["extestio"])
    /\ Len(record["sample"]) = Len(record["sampleio"])

\* C17: at every point of main(), an interrupt at any moment of a walking
\* step included, every record of the summary holds the four sequences
\* (driver names, driver transitions, observed names, observed transitions),
\* names and transitions of a side being equally long; and a step that an
\* interrupt has cut short has added no record.
C17_NeverTorn ==
    /\ \A r \in 1 .. Len(summary_list) : WholeRecord(summary_list[r])
    /\ \A at \in StepPcs :
          pc \in {"interrupted:" \o at, "handled:" \o at} =>
              Len(summary_list) = StepsAppended

\* an interrupt has left the record of the second step with an observed name
\* that has no transition yet; the summary holds the record of the first step
C17_Witness ==
    /\ pc = "handled:step_sample"
    /\ Len(summary_list) = 1
    /\ "sample" \in DOMAIN summary_dict
    /\ "sampleio" \in DOMAIN summary_dict
    /\ Len(summary_dict["sample"]) = 1
    /\ Len(summary_dict["sampleio"]) = 0

\* the vector of the walking step under way
StepVector == bits_string_list[step]

\* the vectors of the session in the order of its steps
SessionVectors == walkin_zero_output_list \o walkin_ones_output_list

\* C20: walking steps are strictly sequential.  Within a step the EXTEST
\* vector is pushed and shifted onto the pins, then the SAMPLE device's
\* register is read back under SAMPLE/PRELOAD with that vector still on the
\* pins, then the two diffs are in the step's record and the record is
\* appended; the push of step k+1 happens only when the summary holds the
\* records of the steps 1..k, and the records follow the order of the vectors.
C20_StrictlySequential ==
    /\ pc \in StepPcs => Len(summary_list) = StepsAppended
    /\ pc = "step_extest" =>
           /\ urc.part = ExtestPart
           /\ urc.dr_in[ExtestPart] = StepVector
           /\ urc.pins = StepVector
           /\ DOMAIN summary_dict = {}
    /\ pc = "step_sample" =>
           /\ urc.pins = StepVector
           /\ DOMAIN summary_dict = {"extest", "extestio"}
    /\ pc = "step_append" =>
           /\ urc.part = SamplePart
           /\ urc.ir[SamplePart] = SAMPLE_PRELOAD
           /\ urc.pins = StepVector
           /\ urc.dr_out = Captured([urc EXCEPT !.phase = IF @ = "0" THEN "1" ELSE "0"],
                                    board)
           /\ data_bits_new = Reverse(urc.dr_out)
           /\ DOMAIN summary_dict = {"extest", "extestio", "sample", "sampleio"}
    /\ pc \notin BeforeFirstStep =>
           \A k \in 1 .. Len(walk_trace) : walk_trace[k].vector = SessionVectors[k]

\* the second step of the walking-ones pass is about to append its record
C20_Witness ==
    /\ pc = "step_append"
    /\ walkin_state = 1
    /\ step = 2
    /\ Len(summary_list) = 3
    /\ urc.pins # walkin_ones_string

\* C21 as claimed: when SAMPLE/PRELOAD cannot be set on the SAMPLE device,
\* get_sample_shift_init_bits scans no data register, reads nothing back and
\* hands no register bits to its caller (None); when the instruction was set,
\* it returns the bits the SAMPLE device has captured.
C21_NoneWhenNotSet ==
    [][(pc \in {"zeros_sample", "ones_sample"} /\ pc' \in {"zeros_list", "ones_list"}) =>
          IF SamplePart \in urc.refuses
          THEN /\ urc'.dr_out = urc.dr_out
               /\ urc'.phase = urc.phase
               /\ dr_init_bits_sample' = << >>
          ELSE /\ urc'.ir[SamplePart] = SAMPLE_PRELOAD
               /\ dr_init_bits_sample' = Captured(urc, board)]_vars

\* the snapshot get_sample_shift_init_bits has read at the start of the pass:
\* the SAMPLE device's capture with the pass's baseline on the pins
PassSnapshot == Captured([urc EXCEPT !.pins = BaselineOf(walkin_state)], board)

\* C22: on the EXTEST and on the SAMPLE side the diff of walking step k is
\* taken against the running baseline, the vector pushed / the snapshot read
\* in step k-1, and against the baseline of the pass in its first step only;
\* after the step the running baseline is the vector just pushed / the
\* snapshot just read, in the bit order the driver uses.
C22_RunningBaseline ==
    /\ pc \in {"step_sample", "step_append"} =>
           dr_init_bits = StepVector
    /\ pc = "step_sample" =>
           /\ data_bits_old = Reverse(IF step = 1 THEN BaselineOf(walkin_state)
                                      ELSE bits_string_list[step - 1])
           /\ data_bits_new = Reverse(StepVector)
    /\ pc = "step_append" =>
           /\ data_bits_old = IF step = 1 THEN Reverse(PassSnapshot)
                              ELSE walk_trace[Len(walk_trace)].sample_new
           /\ data_bits_new = Reverse(urc.dr_out)
           /\ dr_init_bits_sample = urc.dr_out

\* a second step whose SAMPLE baseline is the snapshot of the first step, not
\* the snapshot of the start of the pass
C22_Witness ==
    /\ pc = "step_append"
    /\ step = 2
    /\ walk_trace[Len(walk_trace)].sample_new # walk_trace[Len(walk_trace)].sample_old
    /\ data_bits_old # Reverse(PassSnapshot)

(***************************************************************************)
(* The change detector on its own: the list comprehension of line 528 for  *)
(* every pair of vectors of at most Width bits, of equal length or not,    *)
(* called on (old, new) and then on (new, old).                            *)
(***************************************************************************)
\* line 528: data_bits_new[i] for every i in range(len(data_bits_old)) raises
\* IndexError when data_bits_new is the shorter; positions of data_bits_new
\* beyond len(data_bits_old) are never looked at
Comparison(old, new) ==
    IF Len(new) < Len(old)
    THEN [raised |-> TRUE, differing |-> << >>]
    ELSE [raised |-> FALSE, differing |-> differing_bits(old, new)]

\* the vectors of at most Width bits
ShortVectors == UNION {Vectors(n) : n \in 0 .. Width}

InitChange ==
    /\ pc = "compare"
    /\ call \in [old : ShortVectors, new : ShortVectors]
    /\ returned = << >>
    /\ fs = << >>
    /\ sample_device = NoDevice
    /\ extest_device = NoDevice
    /\ extest_bit_info_dict = << >>
    /\ sample_bit_info_dict = << >>
    /\ urc = Chain(ExtestPart, << >>, << >>, << >>)
    /\ NoLoop

\* line 528 on (old, new)
Compare ==
    /\ pc = "compare"
    /\ returned' = Append(returned, Comparison(call.old, call.new))
    /\ pc' = "compare_back"
    /\ UNCHANGED <<call, urc, extest_bit_info_dict, sample_bit_info_dict>>
    /\ UNCHANGED startup_vars
    /\ UNCHANGED loop_vars

\* line 528 on (new, old)
CompareBack ==
    /\ pc = "compare_back"
    /\ returned' = Append(returned, Comparison(call.new, call.old))
    /\ pc' = "compared"
    /\ UNCHANGED <<call, urc, extest_bit_info_dict, sample_bit_info_dict>>
    /\ UNCHANGED startup_vars
    /\ UNCHANGED loop_vars

NextChange == Compare \/ CompareBack

SpecChange == InitChange /\ [][NextChange]_vars

\* C23: for vectors of equal length the change detector yields one entry
\* (index, old value, new value) for every index at which the two vectors
\* differ, in ascending index order, and no entry for an index at which they
\* agree.
C23_OneEntryPerDifference ==
    (Len(returned) >= 1 /\ Len(call.old) = Len(call.new)) =>
        LET d == returned[1].differing
        IN  /\ ~returned[1].raised
            /\ \A k \in 1 .. Len(d) :
                  /\ d[k].bit \in 0 .. (Len(call.old) - 1)
                  /\ d[k].old = call.old[d[k].bit + 1]
                  /\ d[k].new = call.new[d[k].bit + 1]
                  /\ d[k].old # d[k].new
            /\ \A k \in 1 .. (Len(d) - 1) : d[k].bit < d[k + 1].bit
            /\ \A i \in 0 .. (Len(call.old) - 1) :
                  call.old[i + 1] # call.new[i + 1] => \E k \in 1 .. Len(d) : d[k].bit = i

\* two vectors that differ at their first and last index and agree in between
C23_Witness ==
    /\ Len(returned) >= 1
    /\ Len(call.old) = 3
    /\ Len(call.new) = 3
    /\ call.old[2] = call.new[2]
    /\ Len(returned[1].differing) = 2

\* C24 as claimed: when the two vectors differ in length, whichever is the
\* longer, the change detector fails instead of returning change entries.
C24_LengthMismatch ==
    (Len(returned) >= 1 /\ Len(call.old) # Len(call.new)) => returned[1].raised

\* the entries of an outcome as a set
Entries(outcome) == {outcome.differing[k] : k \in 1 .. Len(outcome.differing)}

Swapped(entry) == [bit |-> entry.bit, old |-> entry.new, new |-> entry.old]

\* C27: for two vectors of equal length, the change detector on (a, b) and on
\* (b, a) reports the same indices, the old and the new value of every index
\* swapped.
C27_DiffSymmetry ==
    (Len(returned) = 2 /\ Len(call.old) = Len(call.new)) =>
        /\ ~returned[1].raised /\ ~returned[2].raised
        /\ {e.bit : e \in Entries(returned[1])} = {e.bit : e \in Entries(returned[2])}
        /\ Entries(returned[2]) = {Swapped(e) : e \in Entries(returned[1])}

\* both calls made on two vectors that differ somewhere
C27_Witness ==
    /\ Len(returned) = 2
    /\ Len(call.old) = Len(call.new)
    /\ returned[1].differing # << >>
    /\ returned[2].differing # << >>

(***************************************************************************)
(* set_bits on its own: line 428 for every vector of at most Width bits,   *)
(* every position up to Width and both values, called once and then once   *)
(* more on its own result.                                                 *)
(***************************************************************************)
\* line 428: slicing and concatenation raise for no position
SetBits(output_string, bit_position, bit_value) ==
    [raised |-> FALSE, string |-> set_bits(output_string, bit_position, bit_value)]

InitBits ==
    /\ pc = "set_bits"
    /\ call \in [output_string : ShortVectors, bit_position : 0 .. Width, bit_value : Level]
    /\ returned = << >>
    /\ fs = << >>
    /\ sample_device = NoDevice
    /\ extest_device = NoDevice
    /\ extest_bit_info_dict = << >>
    /\ sample_bit_info_dict = << >>
    /\ urc = Chain(ExtestPart, << >>, << >>, << >>)
    /\ NoLoop

\* set_bits(output_string, bit_position, bit_value)
SetBit ==
    /\ pc = "set_bits"
    /\ returned' = Append(returned,
                          SetBits(call.output_string, call.bit_position, call.bit_value))
    /\ pc' = "set_bits_again"
    /\ UNCHANGED <<call, urc, extest_bit_info_dict, sample_bit_info_dict>>
    /\ UNCHANGED startup_vars
    /\ UNCHANGED loop_vars

\* set_bits(result, bit_position, bit_value) on the result of the first call
SetBitAgain ==
    /\ pc = "set_bits_again"
    /\ returned' = Append(returned,
                          SetBits(returned[1].string, call.bit_position, call.bit_value))
    /\ pc' = "set_bits_done"
    /\ UNCHANGED <<call, urc, extest_bit_info_dict, sample_bit_info_dict>>
    /\ UNCHANGED startup_vars
    /\ UNCHANGED loop_vars

NextBits == SetBit \/ SetBitAgain

SpecBits == InitBits /\ [][NextBits]_vars

\* C25 as claimed: for a position greater than or equal to the length of the
\* vector, set_bits fails and returns no vector.
C25_IndexOutOfRange ==
    (Len(returned) >= 1 /\ call.bit_position >= Len(call.output_string)) =>
        returned[1].raised

\* C26: for a position inside the vector, set_bits returns a vector of the
\* same length that holds the value at the position and the bits of the
\* vector everywhere else; setting the same bit once more changes nothing.
C26_SetBitAndIdempotence ==
    call.bit_position < Len(call.output_string) =>
        /\ Len(returned) >= 1 =>
              /\ ~returned[1].raised
              /\ Len(returned[1].string) = Len(call.output_string)
              /\ \A i \in 0 .. (Len(call.output_string) - 1) :
                    returned[1].string[i + 1] =
                        IF i = call.bit_position
                        THEN (IF call.bit_value = 1 THEN "1" ELSE "0")
                        ELSE call.output_string[i + 1]
        /\ Len(returned) = 2 => returned[2] = returned[1]

\* a bit in the middle of a vector changed, and set once more
C26_Witness ==
    /\ Len(returned) = 2
    /\ Len(call.output_string) = 3
    /\ call.bit_position = 1
    /\ returned[1].string # call.output_string

\* the level of the pass that has produced the r-th record of the session
PassOf(r) == IF r <= Len(walkin_zero_output_list) THEN 0 ELSE 1

\* the transition a pass attributes: towards the level it walks
PassTransition(level) == IF level = 0 THEN Transition("1", "0") ELSE Transition("0", "1")

AllAre(transitions, io) == \A k \in 1 .. Len(transitions) : transitions[k] = io

\* C28: in every record of the summary, every attributed transition of the
\* EXTEST and of the SAMPLE side has the polarity of the pass that produced
\* the record, "1 -> 0" in a walking-zeros and "0 -> 1" in a walking-ones
\* record, so that observed and driver transitions of a record have one
\* direction; and the pass flag the diffs of a step have read is the level of
\* the pass walked, never -1 or the level of the pass before.
C28_PassPolarity ==
    pc \notin BeforeFirstStep =>
        /\ \A r \in 1 .. Len(summary_list) :
              /\ AllAre(summary_list[r]["extestio"], PassTransition(PassOf(r)))
              /\ AllAre(summary_list[r]["sampleio"], PassTransition(PassOf(r)))
              /\ walk_trace[r].state = PassOf(r)
        /\ pc \in StepPcs => walkin_state = PassOf(Len(summary_list) + 1)

\* a session with an observed transition in a record of either pass
C28_Witness ==
    /\ pc = "summary"
    /\ \E r \in 1 .. Len(summary_list) :
          PassOf(r) = 0 /\ summary_list[r]["sampleio"] # << >>
                        /\ summary_list[r]["extestio"] # << >>
    /\ \E r \in 1 .. Len(summary_list) :
          PassOf(r) = 1 /\ summary_list[r]["sampleio"] # << >>
                        /\ summary_list[r]["extestio"] # << >>

\* the output cell walked by the step that has produced the r-th record
WalkedIn(r) == WalkedBit(((r - 1) % Cardinality(OutputBits)) + 1)

\* C29: the EXTEST side of every step's record attributes one driver
\* transition, that of the pin walked in the step; the return of the pin
\* walked before it and every other cell of the driver are left out.
C29_OneDriverPerStep ==
    pc \notin BeforeFirstStep =>
        \A r \in 1 .. Len(summary_list) :
            /\ summary_list[r]["extest"] = <<DriverName(WalkedIn(r))>>
            /\ summary_list[r]["extestio"] = <<PassTransition(PassOf(r))>>

\* C30: the pin name "*" of a cell without an external pin is not among the
\* driver or the observed pin names of a record of the summary, and is not a
\* key or a Connected target of the verdicts.
C30_NoPlaceholderName ==
    /\ pc \notin BeforeFirstStep =>
          \A r \in 1 .. Len(summary_list) :
              /\ ~Contains(summary_list[r]["extest"], "*")
              /\ ~Contains(summary_list[r]["sample"], "*")
    /\ ~Contains(summary_chain_dict.keys, "*")
    /\ \A k \in 1 .. Len(printed) : printed[k][1] # "*" /\ printed[k][2] # "*"

\* a vector in transport order that walks `level` on the output cell b alone
WalksAlone(vector, b, level) ==
    \A c \in OutputBits :
        At(vector, c) = IF c = b THEN LevelChar(level) ELSE RestChar(level)

\* the records of a whole session over the N output cells of the driver Pin
\* Map: N walking-zeros steps, then N walking-ones steps, each pass in
\* ascending bit_index order
BothPasses ==
    LET N == Cardinality(OutputBits)
    IN  /\ Len(summary_list) = 2 * N
        /\ Len(walk_trace) = 2 * N
        /\ \A r \in 1 .. 2 * N :
              /\ walk_trace[r].state = (IF r <= N THEN 0 ELSE 1)
              /\ WalksAlone(walk_trace[r].vector, WalkedIn(r), walk_trace[r].state)
              /\ Contains(summary_list[r]["extest"], DriverName(WalkedIn(r)))
        /\ \A r \in 1 .. 2 * N - 1 : r # N => WalkedIn(r) < WalkedIn(r + 1)

\* C31: whenever view_summary runs in a session over a driver Pin Map with N
\* Output/Bidirectional cells, the summary holds exactly 2N records, the N
\* walking-zeros steps in ascending bit_index order and then the N
\* walking-ones steps in ascending bit_index order, and these are the records
\* classified: view_summary never runs after one pass only.
C31_BothPassesClassified ==
    [][(pc = "summary" /\ pc' = "reset") =>
          /\ BothPasses
          /\ summary_list' = summary_list
          /\ summary_chain_dict' = ChainList(EmptyChain, summary_list)]_vars

\* view_summary has classified the records of a session over three output cells
C31_Witness ==
    /\ pc = "reset"
    /\ Cardinality(OutputBits) = 3
    /\ Len(summary_list) = 6
    /\ Len(printed) = 3

====
